---- MODULE Spec2Model ----
(***************************************************************************)
(* Content generation pipeline of genai-stack: the agent run template      *)
(* (src/src/agents/base_agent.py), the five stage agents                   *)
(* (src/src/agents/*_agent.py) and the orchestrator (src/src/main.py).     *)
(*                                                                         *)
(* Text is a sequence of tokens [c, n]: W(n) stands for n words separated  *)
(* by single spaces, T(" ") and T("\n") are whitespace, T(".") is a full   *)
(* stop, and the section headers and the bullet prefix "- " are single     *)
(* tokens.  Python dictionaries are records; None is the record None.  The *)
(* files under output/ are a function from paths to file contents.         *)
(***************************************************************************)
EXTENDS Integers, Sequences, FiniteSets, TLC

\* ---------------------------------------------------------------- values

None == [none |-> TRUE]
Unset == [unset |-> TRUE]
Pending == [pending |-> TRUE]

Runs == {"A", "B"}
Other(r) == IF r = "A" THEN "B" ELSE "A"

Stages == <<"research", "script", "voice", "visual", "editor">>
StageNames == {"research", "script", "voice", "visual", "editor"}

\* ------------------------------------------------------------ Python text

T(ch) == [c |-> ch, n |-> 1]
W(n) == [c |-> "a", n |-> n]

IsWs(t) == t.c \in {" ", "\n"}

Min(S) == CHOOSE x \in S : \A y \in S : x <= y
Max(S) == CHOOSE x \in S : \A y \in S : x >= y

\* the k-th smallest element of a set of positions
Nth(S, k) == CHOOSE p \in S : Cardinality({q \in S : q <= p}) = k

\* str.split(sep) for a one-token separator
SplitOn(s, sep) ==
    LET P == {i \in 1..Len(s) : s[i] = T(sep)}
        n == Cardinality(P)
        cut(k) == IF k = 0 THEN 0 ELSE IF k = n + 1 THEN Len(s) + 1 ELSE Nth(P, k)
    IN  [k \in 1..(n + 1) |-> SubSeq(s, cut(k - 1) + 1, cut(k) - 1)]

\* str.strip()
Strip(s) ==
    LET P == {i \in 1..Len(s) : ~IsWs(s[i])} IN
    IF P = {} THEN <<>> ELSE SubSeq(s, Min(P), Max(P))

WordStarts(s) == {i \in 1..Len(s) : ~IsWs(s[i]) /\ (i = 1 \/ IsWs(s[i - 1]))}
WordEnds(s) == {i \in 1..Len(s) : ~IsWs(s[i]) /\ (i = Len(s) \/ IsWs(s[i + 1]))}

RECURSIVE InnerSpaces(_)
\* the spaces inside the word tokens of a text
InnerSpaces(s) == IF s = <<>> THEN 0 ELSE (Head(s).n - 1) + InnerSpaces(Tail(s))

\* len(s.split()): every maximal run of non-whitespace tokens is one word,
\* and every space inside a token W(n) starts one more
WordCount(s) == Cardinality(WordStarts(s)) + InnerSpaces(s)

RECURSIVE Join(_, _)
\* sep.join(parts)
Join(sep, parts) ==
    IF parts = <<>> THEN <<>>
    ELSE IF Len(parts) = 1 THEN parts[1]
    ELSE parts[1] \o sep \o Join(sep, Tail(parts))

NonEmpty(x) == x # <<>>

StripAll(parts) == [i \in 1..Len(parts) |-> Strip(parts[i])]

\* [s.strip() for s in script.split(".") if s.strip()]
Sentences(script) == SelectSeq(StripAll(SplitOn(script, ".")), NonEmpty)

\* the stripped, non-blank lines of a response
Lines(response) == SelectSeq(StripAll(SplitOn(response, "\n")), NonEmpty)

HashMod == 65521
HashBase == 31

TokenCode(t) ==
    8 * t.n + (CASE t.c = "a" -> 1
                 [] t.c = " " -> 2
                 [] t.c = "." -> 3
                 [] t.c = "\n" -> 4
                 [] OTHER -> 5)

RECURSIVE HashFrom(_, _)
HashFrom(s, h) ==
    IF s = <<>> THEN h ELSE HashFrom(Tail(s), (h * HashBase + TokenCode(Head(s))) % HashMod)

\* hash(script): a deterministic digest of the text
Hash(s) == HashFrom(s, 7)

\* ----------------------------------------------------------- configuration

\* config["platforms"]: the platform profiles (content_config.yaml)
ConfigPlatforms ==
    [tiktok |-> [style |-> "energetic", max_duration |-> 60, aspect_ratio |-> "9:16"],
     youtube_shorts |-> [style |-> "educational", max_duration |-> 45, aspect_ratio |-> "9:16"]]

\* config["agents"]: the parameters each agent keeps from its constructor
ConfigAgents ==
    [research |-> [model |-> "llama2"],
     script |-> [model |-> "gpt-4"],
     voice |-> [voice_id |-> "en-US-Neural2-F", speaking_rate |-> "1.0"],
     visual |-> [provider |-> "dalle", style |-> "cinematic", image_quality |-> "hd"],
     editor |-> [video_quality |-> "high", audio_quality |-> "high",
                 transition_style |-> "smooth"]]

\* platform names a caller may pass; "myspace" has no profile
PlatformNames == DOMAIN ConfigPlatforms \cup {"myspace"}
Topics == {"pyramids", "rome"}

\* ------------------------------------------------------- process outcomes

\* the exception classes raised here; all of them derive from Exception
ExceptionClasses ==
    {"Exception", "KeyError", "TypeError", "ZeroDivisionError", "OSError", "ProviderFailure"}

\* `except Exception` catches exc
Caught(exc) == exc \in ExceptionClasses

Raised(e) == [raised |-> TRUE, exc |-> e, value |-> None]
Returned(v) == [raised |-> FALSE, exc |-> "", value |-> v]

HasKeys(d, keys) == keys \subseteq DOMAIN d

LogInfo(agent, msg) == [agent |-> agent, level |-> "INFO", msg |-> msg]
LogError(agent, msg) == [agent |-> agent, level |-> "ERROR", msg |-> msg]

FsWrite(files, path, content) ==
    [p \in (DOMAIN files) \cup {path} |-> IF p = path THEN content ELSE files[p]]

Exists(files, path) == path \in DOMAIN files

\* ---------------------------------------------------------- ResearchAgent

RECURSIVE ResearchScan(_, _, _, _, _)
ResearchScan(lines, i, section, facts, sources) ==
    IF i > Len(lines) THEN [facts |-> facts, sources |-> sources]
    ELSE LET line == lines[i] IN
         IF line = <<T("FACTS:")>> THEN ResearchScan(lines, i + 1, "facts", facts, sources)
         ELSE IF line = <<T("SOURCES:")>>
              THEN ResearchScan(lines, i + 1, "sources", facts, sources)
         ELSE IF Len(line) > 1 /\ line[1] = T("- ")
              THEN IF section = "facts"
                   THEN ResearchScan(lines, i + 1, section, Append(facts, Tail(line)), sources)
                   ELSE IF section = "sources"
                        THEN ResearchScan(lines, i + 1, section, facts,
                                          Append(sources, Tail(line)))
                        ELSE ResearchScan(lines, i + 1, section, facts, sources)
         ELSE ResearchScan(lines, i + 1, section, facts, sources)

\* _process_research that takes the bullets before the first header as facts
ProcessResearchKeepsPreamble(response) == ResearchScan(Lines(response), 1, "facts", <<>>, <<>>)

\* ResearchAgent._process_research
ProcessResearch(response) == ResearchScan(Lines(response), 1, "none", <<>>, <<>>)

\* process that records the style where the platform belongs
ResearchProcessMixesMetadata(input, prov) ==
    IF ~HasKeys(input, {"topic", "platform", "style"}) THEN Raised("KeyError")
    ELSE IF prov.raised THEN Raised("ProviderFailure")
    ELSE LET parsed == ProcessResearch(prov.text) IN
         Returned([facts |-> parsed.facts,
                   sources |-> parsed.sources,
                   metadata |-> [topic |-> input.topic,
                                 platform |-> input.style,
                                 style |-> input.platform,
                                 model |-> ConfigAgents.research.model]])

\* ResearchAgent.process; prov is what the text-generation provider does
ResearchProcess(input, prov) ==
    IF ~HasKeys(input, {"topic", "platform", "style"}) THEN Raised("KeyError")
    ELSE IF prov.raised THEN Raised("ProviderFailure")
    ELSE LET parsed == ProcessResearch(prov.text) IN
         Returned([facts |-> parsed.facts,
                   sources |-> parsed.sources,
                   metadata |-> [topic |-> input.topic,
                                 platform |-> input.platform,
                                 style |-> input.style,
                                 model |-> ConfigAgents.research.model]])

\* validate_output that wants one source for each fact
ResearchValidateOneToOne(output) ==
    IF output = None THEN [res |-> "raise", log |-> <<>>]
    ELSE IF ~HasKeys(output, {"facts", "sources", "metadata"})
         THEN [res |-> "false",
               log |-> <<LogError("research_agent", "Missing required keys in output")>>]
    ELSE IF output.facts = <<>> \/ output.sources = <<>>
         THEN [res |-> "false",
               log |-> <<LogError("research_agent", "Empty facts or sources")>>]
    ELSE IF Len(output.facts) # Len(output.sources)
         THEN [res |-> "false",
               log |-> <<LogError("research_agent", "More facts than sources")>>]
    ELSE [res |-> "true", log |-> <<>>]

\* ResearchAgent.validate_output
ResearchValidate(output) ==
    IF output = None THEN [res |-> "raise", log |-> <<>>]
    ELSE IF ~HasKeys(output, {"facts", "sources", "metadata"})
         THEN [res |-> "false",
               log |-> <<LogError("research_agent", "Missing required keys in output")>>]
    ELSE IF output.facts = <<>> \/ output.sources = <<>>
         THEN [res |-> "false",
               log |-> <<LogError("research_agent", "Empty facts or sources")>>]
    ELSE IF Len(output.facts) > Len(output.sources)
         THEN [res |-> "false",
               log |-> <<LogError("research_agent", "More facts than sources")>>]
    ELSE [res |-> "true", log |-> <<>>]

\* ------------------------------------------------------------ ScriptAgent

ScriptMinWords == 50
ScriptMaxWords == 300

SectionOf(line) ==
    IF line = <<T("HOOK:")>> THEN "hook"
    ELSE IF line = <<T("MAIN CONTENT:")>> THEN "main_content"
    ELSE IF line = <<T("CALL TO ACTION:")>> THEN "call_to_action"
    ELSE "none"

StoreSection(parts, section, content) ==
    IF section = "none" THEN parts
    ELSE [parts EXCEPT ![section] = Join(<<T("\n")>>, content)]

RECURSIVE ScriptScan(_, _, _, _, _)
ScriptScan(lines, i, section, content, parts) ==
    IF i > Len(lines) THEN StoreSection(parts, section, content)
    ELSE IF SectionOf(lines[i]) # "none"
         THEN ScriptScan(lines, i + 1, SectionOf(lines[i]), <<>>,
                         StoreSection(parts, section, content))
    ELSE ScriptScan(lines, i + 1, section, Append(content, lines[i]), parts)

\* _process_script that takes the lines before the first header as the hook
ProcessScriptKeepsPreamble(response) ==
    ScriptScan(Lines(response), 1, "hook", <<>>,
               [hook |-> <<>>, main_content |-> <<>>, call_to_action |-> <<>>])

\* ScriptAgent._process_script
ProcessScript(response) ==
    ScriptScan(Lines(response), 1, "none", <<>>,
               [hook |-> <<>>, main_content |-> <<>>, call_to_action |-> <<>>])

\* ScriptAgent.process
ScriptProcess(input, prov) ==
    IF ~HasKeys(input, {"facts", "platform", "style", "duration"}) THEN Raised("KeyError")
    ELSE IF prov.raised THEN Raised("ProviderFailure")
    ELSE LET parts == ProcessScript(prov.text) IN
         Returned([script |-> parts.main_content,
                   hook |-> parts.hook,
                   call_to_action |-> parts.call_to_action,
                   metadata |-> [platform |-> input.platform,
                                 style |-> input.style,
                                 duration |-> input.duration,
                                 model |-> ConfigAgents.script.model]])

\* validate_output that rejects a script of exactly 50 or 300 words
ScriptValidateExclusive(output) ==
    IF output = None THEN [res |-> "raise", log |-> <<>>]
    ELSE IF ~HasKeys(output, {"script", "hook", "call_to_action", "metadata"})
         THEN [res |-> "false",
               log |-> <<LogError("script_agent", "Missing required keys in output")>>]
    ELSE IF output.script = <<>> \/ output.hook = <<>> \/ output.call_to_action = <<>>
         THEN [res |-> "false",
               log |-> <<LogError("script_agent", "Empty script components")>>]
    ELSE LET words == WordCount(output.script) IN
         IF words <= ScriptMinWords \/ words >= ScriptMaxWords
         THEN [res |-> "false",
               log |-> <<LogError("script_agent", "Script length inappropriate")>>]
         ELSE [res |-> "true", log |-> <<>>]

\* ScriptAgent.validate_output
ScriptValidate(output) ==
    IF output = None THEN [res |-> "raise", log |-> <<>>]
    ELSE IF ~HasKeys(output, {"script", "hook", "call_to_action", "metadata"})
         THEN [res |-> "false",
               log |-> <<LogError("script_agent", "Missing required keys in output")>>]
    ELSE IF output.script = <<>> \/ output.hook = <<>> \/ output.call_to_action = <<>>
         THEN [res |-> "false",
               log |-> <<LogError("script_agent", "Empty script components")>>]
    ELSE LET words == WordCount(output.script) IN
         IF words < ScriptMinWords \/ words > ScriptMaxWords
         THEN [res |-> "false",
               log |-> <<LogError("script_agent", "Script length inappropriate")>>]
         ELSE [res |-> "true", log |-> <<>>]

\* ------------------------------------------------------------- VoiceAgent

\* bytes of synthesized audio per second of the duration estimate
AudioBytesPerSecond == 16000

AudioPath(platform, script) == <<"output/audio", platform, Hash(script)>>

\* process that reads the style only when the audio has been written
VoiceProcessReadsStyleLate(input, prov, files, r) ==
    IF ~HasKeys(input, {"script", "platform"})
    THEN [p |-> Raised("KeyError"), files |-> files]
    ELSE IF prov.raised THEN [p |-> Raised("ProviderFailure"), files |-> files]
    ELSE LET output_file == AudioPath(input.platform, input.script)
             written == FsWrite(files, output_file,
                                [kind |-> prov.kind, by |-> r, bytes |-> prov.bytes,
                                 script |-> Hash(input.script)])
         IN  IF "style" \notin DOMAIN input THEN [p |-> Raised("KeyError"), files |-> written]
             ELSE [p |-> Returned([audio_path |-> output_file,
                                   duration |-> [num |-> prov.bytes,
                                                 den |-> AudioBytesPerSecond],
                                   metadata |-> [platform |-> input.platform,
                                                 style |-> input.style,
                                                 voice_id |-> ConfigAgents.voice.voice_id,
                                                 speaking_rate |->
                                                     ConfigAgents.voice.speaking_rate]]),
                   files |-> written]

\* VoiceAgent.process; prov is what the speech provider does; r is the run
\* that writes (kept in the file as "by", to tell the writers apart)
VoiceProcess(input, prov, files, r) ==
    IF ~HasKeys(input, {"script", "platform", "style"})
    THEN [p |-> Raised("KeyError"), files |-> files]
    ELSE IF prov.raised THEN [p |-> Raised("ProviderFailure"), files |-> files]
    ELSE LET output_file == AudioPath(input.platform, input.script) IN
         [p |-> Returned([audio_path |-> output_file,
                          duration |-> [num |-> prov.bytes, den |-> AudioBytesPerSecond],
                          metadata |-> [platform |-> input.platform,
                                        style |-> input.style,
                                        voice_id |-> ConfigAgents.voice.voice_id,
                                        speaking_rate |-> ConfigAgents.voice.speaking_rate]]),
          files |-> FsWrite(files, output_file,
                            [kind |-> prov.kind, by |-> r, bytes |-> prov.bytes,
                             script |-> Hash(input.script)])]

\* validate_output that reads the keys without looking whether they are there
VoiceValidateUnguarded(output, files) ==
    IF output = None THEN [res |-> "raise", log |-> <<>>]
    ELSE IF "audio_path" \notin DOMAIN output THEN [res |-> "raise", log |-> <<>>]
    ELSE IF ~Exists(files, output.audio_path)
         THEN [res |-> "false", log |-> <<LogError("voice_agent", "Audio file not created")>>]
    ELSE IF "duration" \notin DOMAIN output THEN [res |-> "raise", log |-> <<>>]
    ELSE IF output.duration.num <= 0
         THEN [res |-> "false", log |-> <<LogError("voice_agent", "Invalid audio duration")>>]
    ELSE [res |-> "true", log |-> <<>>]

\* VoiceAgent.validate_output
VoiceValidate(output, files) ==
    IF output = None THEN [res |-> "raise", log |-> <<>>]
    ELSE IF ~HasKeys(output, {"audio_path", "duration", "metadata"})
         THEN [res |-> "false",
               log |-> <<LogError("voice_agent", "Missing required keys in output")>>]
    ELSE IF ~Exists(files, output.audio_path)
         THEN [res |-> "false", log |-> <<LogError("voice_agent", "Audio file not created")>>]
    ELSE IF output.duration.num <= 0
         THEN [res |-> "false", log |-> <<LogError("voice_agent", "Invalid audio duration")>>]
    ELSE [res |-> "true", log |-> <<>>]

\* ------------------------------------------------------------ VisualAgent

ImagePath(platform, i) == <<"output/images", platform, i>>

\* VisualAgent._get_image_size
GetImageSize(aspect_ratio) ==
    CASE aspect_ratio = "1:1" -> "1024x1024"
      [] aspect_ratio = "16:9" -> "1024x576"
      [] aspect_ratio = "9:16" -> "576x1024"
      [] aspect_ratio = "4:3" -> "1024x768"
      [] aspect_ratio = "3:4" -> "768x1024"
      [] OTHER -> "1024x1024"

\* prompts with one prompt for every piece between two full stops, the
\* empty ones included
GenerateImagePromptsKeepsEmpty(script, style) ==
    LET sentences == StripAll(SplitOn(script, ".")) IN
    [i \in 1..Len(sentences) |->
        [style |-> style, sentence |-> sentences[i],
         agent_style |-> ConfigAgents.visual.style,
         quality |-> ConfigAgents.visual.image_quality]]

\* VisualAgent._generate_image_prompts: one prompt per non-empty sentence
GenerateImagePrompts(script, style) ==
    LET sentences == Sentences(script) IN
    [i \in 1..Len(sentences) |->
        [style |-> style, sentence |-> sentences[i],
         agent_style |-> ConfigAgents.visual.style,
         quality |-> ConfigAgents.visual.image_quality]]

\* _generate_image that swallows a failed request and names the file anyway
GenerateImageSwallowsFailure(prompt, platform, aspect_ratio, i, outcome, files, r) ==
    LET output_file == ImagePath(platform, i - 1) IN
    IF outcome # "ok" THEN [p |-> Returned(output_file), files |-> files]
    ELSE [p |-> Returned(output_file),
          files |-> FsWrite(files, output_file,
                            [kind |-> "png", by |-> r, prompt |-> prompt,
                             size |-> GetImageSize(aspect_ratio)])]

\* VisualAgent._generate_image for the prompt at position i (image_{i-1});
\* outcome is "ok" or "fail" (the request, the download or the decoding fails)
GenerateImage(prompt, platform, aspect_ratio, i, outcome, files, r) ==
    IF outcome # "ok" THEN [p |-> Raised("ProviderFailure"), files |-> files]
    ELSE LET output_file == ImagePath(platform, i - 1) IN
         [p |-> Returned(output_file),
          files |-> FsWrite(files, output_file,
                            [kind |-> "png", by |-> r, prompt |-> prompt,
                             size |-> GetImageSize(aspect_ratio)])]

\* VisualAgent.process, the value returned once every prompt has its image
VisualOutput(input, image_paths) ==
    [image_paths |-> image_paths,
     metadata |-> [platform |-> input.platform,
                   style |-> input.style,
                   aspect_ratio |-> input.aspect_ratio,
                   provider |-> ConfigAgents.visual.provider]]

\* Image.open(path) succeeds
Decodable(files, path) == files[path].kind = "png"

\* the check of the image at position i only
VisualCheckOneImage(paths, i, files) ==
    IF i > Len(paths) THEN [res |-> "true", log |-> <<>>]
    ELSE IF ~Exists(files, paths[i])
         THEN [res |-> "false", log |-> <<LogError("visual_agent", "Image file not found")>>]
    ELSE IF ~Decodable(files, paths[i])
         THEN [res |-> "false", log |-> <<LogError("visual_agent", "Invalid image file")>>]
    ELSE [res |-> "true", log |-> <<>>]

RECURSIVE VisualCheckImages(_, _, _)
\* VisualAgent.validate_output: the loop over image_paths, from position i on
VisualCheckImages(paths, i, files) ==
    IF i > Len(paths) THEN [res |-> "true", log |-> <<>>]
    ELSE IF ~Exists(files, paths[i])
         THEN [res |-> "false", log |-> <<LogError("visual_agent", "Image file not found")>>]
    ELSE IF ~Decodable(files, paths[i])
         THEN [res |-> "false", log |-> <<LogError("visual_agent", "Invalid image file")>>]
    ELSE VisualCheckImages(paths, i + 1, files)

\* VisualAgent.validate_output
VisualValidate(output, files) ==
    IF output = None THEN [res |-> "raise", log |-> <<>>]
    ELSE IF ~HasKeys(output, {"image_paths", "metadata"})
         THEN [res |-> "false",
               log |-> <<LogError("visual_agent", "Missing required keys in output")>>]
    ELSE IF output.image_paths = <<>>
         THEN [res |-> "false", log |-> <<LogError("visual_agent", "No images generated")>>]
    ELSE VisualCheckImages(output.image_paths, 1, files)

RECURSIVE VisualLoop(_, _, _, _, _, _)
\* VisualAgent.process: the loop over the prompts, one request after the
\* other; outcomes[i] is what the image provider does with the i-th
VisualLoop(input, prompts, outcomes, paths, files, r) ==
    LET i == Len(paths) + 1 IN
    IF i > Len(prompts) THEN [p |-> Returned(VisualOutput(input, paths)), files |-> files]
    ELSE LET done == GenerateImage(prompts[i], input.platform, input.aspect_ratio, i,
                                   outcomes[i], files, r)
         IN  IF done.p.raised THEN [p |-> done.p, files |-> done.files]
             ELSE VisualLoop(input, prompts, outcomes, Append(paths, done.p.value),
                             done.files, r)

\* VisualAgent.process
VisualProcess(input, outcomes, files, r) ==
    IF ~HasKeys(input, {"script", "platform", "style", "aspect_ratio"})
    THEN [p |-> Raised("KeyError"), files |-> files]
    ELSE VisualLoop(input, GenerateImagePrompts(input.script, input.style), outcomes,
                    <<>>, files, r)

\* ------------------------------------------------------------ EditorAgent

\* one video file for all platforms
VideoPathShared(platform) == <<"output/videos", "all", 0>>

\* EditorAgent.process: output_file
VideoPath(platform) == <<"output/videos", platform, 0>>

\* AudioFileClip(path) succeeds
AudioDecodable(files, path) == files[path].kind = "mp3"

\* clips that each last as long as the whole video
CreateVideoClipsFullLength(image_paths, total_duration, files) ==
    [i \in 1..Len(image_paths) |->
        [image |-> files[image_paths[i]],
         duration |-> [num |-> total_duration, den |-> 1]]]

\* EditorAgent._create_video_clips: every image is shown total_duration / count
CreateVideoClips(image_paths, total_duration, files) ==
    [i \in 1..Len(image_paths) |->
        [image |-> files[image_paths[i]],
         duration |-> [num |-> total_duration, den |-> Len(image_paths)]]]

\* process that does not write over a video that is there
EditorProcessNoOverwrite(input, outcome, files, r) ==
    IF ~HasKeys(input, {"image_paths", "audio_path", "platform", "duration", "aspect_ratio"})
    THEN [p |-> Raised("KeyError"), files |-> files]
    ELSE IF input.image_paths = <<>> THEN [p |-> Raised("ZeroDivisionError"), files |-> files]
    ELSE IF \E i \in 1..Len(input.image_paths) : ~Exists(files, input.image_paths[i])
         THEN [p |-> Raised("OSError"), files |-> files]
    ELSE IF ~Exists(files, input.audio_path) THEN [p |-> Raised("OSError"), files |-> files]
    ELSE IF ~AudioDecodable(files, input.audio_path)
         THEN [p |-> Raised("OSError"), files |-> files]
    ELSE IF Exists(files, VideoPath(input.platform))
         THEN [p |-> Raised("OSError"), files |-> files]
    ELSE IF outcome = "fail" THEN [p |-> Raised("ProviderFailure"), files |-> files]
    ELSE LET output_file == VideoPath(input.platform)
             clips == CreateVideoClips(input.image_paths, input.duration, files)
         IN  [p |-> Returned([video_path |-> output_file,
                              metadata |-> [platform |-> input.platform,
                                            duration |-> input.duration,
                                            aspect_ratio |-> input.aspect_ratio,
                                            video_quality |-> ConfigAgents.editor.video_quality,
                                            audio_quality |-> ConfigAgents.editor.audio_quality,
                                            transition_style |->
                                                ConfigAgents.editor.transition_style]]),
              files |-> FsWrite(files, output_file,
                                [kind |-> "mp4", by |-> r, clips |-> clips,
                                 audio |-> files[input.audio_path],
                                 duration |-> [num |-> Len(clips) * input.duration,
                                               den |-> Len(clips)],
                                 playable |-> (outcome = "ok")])]

\* EditorAgent.process; outcome is what composing and encoding do:
\* "ok", "fail" (an exception) or "corrupt" (a file that cannot be played)
EditorProcess(input, outcome, files, r) ==
    IF ~HasKeys(input, {"image_paths", "audio_path", "platform", "duration", "aspect_ratio"})
    THEN [p |-> Raised("KeyError"), files |-> files]
    ELSE IF input.image_paths = <<>> THEN [p |-> Raised("ZeroDivisionError"), files |-> files]
    ELSE IF \E i \in 1..Len(input.image_paths) : ~Exists(files, input.image_paths[i])
         THEN [p |-> Raised("OSError"), files |-> files]
    ELSE IF ~Exists(files, input.audio_path) THEN [p |-> Raised("OSError"), files |-> files]
    ELSE IF ~AudioDecodable(files, input.audio_path)
         THEN [p |-> Raised("OSError"), files |-> files]
    ELSE IF outcome = "fail" THEN [p |-> Raised("ProviderFailure"), files |-> files]
    ELSE LET output_file == VideoPath(input.platform)
             clips == CreateVideoClips(input.image_paths, input.duration, files)
         IN  [p |-> Returned([video_path |-> output_file,
                              metadata |-> [platform |-> input.platform,
                                            duration |-> input.duration,
                                            aspect_ratio |-> input.aspect_ratio,
                                            video_quality |-> ConfigAgents.editor.video_quality,
                                            audio_quality |-> ConfigAgents.editor.audio_quality,
                                            transition_style |->
                                                ConfigAgents.editor.transition_style]]),
              files |-> FsWrite(files, output_file,
                                [kind |-> "mp4", by |-> r, clips |-> clips,
                                 audio |-> files[input.audio_path],
                                 duration |-> [num |-> Len(clips) * input.duration,
                                               den |-> Len(clips)],
                                 playable |-> (outcome = "ok")])]

\* validate_output that does not look at the duration of the video
EditorValidateAnyDuration(output, files) ==
    IF output = None THEN [res |-> "raise", log |-> <<>>]
    ELSE IF ~HasKeys(output, {"video_path", "metadata"})
         THEN [res |-> "false",
               log |-> <<LogError("editor_agent", "Missing required keys in output")>>]
    ELSE IF ~Exists(files, output.video_path)
         THEN [res |-> "false", log |-> <<LogError("editor_agent", "Video file not created")>>]
    ELSE IF ~files[output.video_path].playable
         THEN [res |-> "false", log |-> <<LogError("editor_agent", "Invalid video file")>>]
    ELSE [res |-> "true", log |-> <<>>]

\* EditorAgent.validate_output
EditorValidate(output, files) ==
    IF output = None THEN [res |-> "raise", log |-> <<>>]
    ELSE IF ~HasKeys(output, {"video_path", "metadata"})
         THEN [res |-> "false",
               log |-> <<LogError("editor_agent", "Missing required keys in output")>>]
    ELSE IF ~Exists(files, output.video_path)
         THEN [res |-> "false", log |-> <<LogError("editor_agent", "Video file not created")>>]
    ELSE IF ~files[output.video_path].playable
         THEN [res |-> "false", log |-> <<LogError("editor_agent", "Invalid video file")>>]
    ELSE IF files[output.video_path].duration.num <= 0
         THEN [res |-> "false", log |-> <<LogError("editor_agent", "Invalid video duration")>>]
    ELSE [res |-> "true", log |-> <<>>]

\* ------------------------------------------- what validate_output touches

\* os.path.exists(path)
IoExists(path) == [op |-> "exists", path |-> path, entry |-> None]
\* a file is opened for reading and decoded, and no handle is kept
IoRead(path) == [op |-> "read", path |-> path, entry |-> None]
\* VideoFileClip(path): the file is opened for reading and the handle kept
IoOpen(path) == [op |-> "open", path |-> path, entry |-> None]
\* video.close()
IoClose(path) == [op |-> "close", path |-> path, entry |-> None]
\* self.logger.error(...): one entry goes to the log of the agent
IoLog(entry) == [op |-> "log", path |-> <<>>, entry |-> entry]

\* VoiceAgent.validate_output: what it does with the files
VoiceValidateReads(output, files) ==
    IF output = None \/ ~HasKeys(output, {"audio_path", "duration", "metadata"}) THEN <<>>
    ELSE <<IoExists(output.audio_path)>>

RECURSIVE VisualValidateReads(_, _, _)
\* VisualAgent.validate_output: what the loop does with the files
VisualValidateReads(paths, i, files) ==
    IF i > Len(paths) THEN <<>>
    ELSE IF ~Exists(files, paths[i]) THEN <<IoExists(paths[i])>>
    ELSE IF ~Decodable(files, paths[i]) THEN <<IoExists(paths[i]), IoRead(paths[i])>>
    ELSE <<IoExists(paths[i]), IoRead(paths[i])>> \o VisualValidateReads(paths, i + 1, files)

\* EditorAgent.validate_output: what it does with the files; the video that
\* lasts 0 or less is left on the path that does not close it
EditorValidateReads(output, files) ==
    IF output = None \/ ~HasKeys(output, {"video_path", "metadata"}) THEN <<>>
    ELSE IF ~Exists(files, output.video_path) THEN <<IoExists(output.video_path)>>
    ELSE IF ~files[output.video_path].playable
         THEN <<IoExists(output.video_path), IoRead(output.video_path)>>
    ELSE IF files[output.video_path].duration.num <= 0
         THEN <<IoExists(output.video_path), IoOpen(output.video_path)>>
    ELSE <<IoExists(output.video_path), IoOpen(output.video_path),
           IoClose(output.video_path)>>

\* the entries a validator logs, as operations
LogOps(entries) == [i \in 1..Len(entries) |-> IoLog(entries[i])]

\* opening a file, with the file opened for writing: it is truncated
IoApplyOpenTruncates(st, op) ==
    CASE op.op \in {"open", "read"} ->
            [st EXCEPT !.files = FsWrite(@, op.path, [kind |-> "empty", by |-> "validate"])]
      [] op.op = "close" -> [st EXCEPT !.handles = @ \ {op.path}]
      [] op.op = "log" -> [st EXCEPT !.log = Append(@, op.entry)]
      [] OTHER -> st

\* what one operation of a validator does to the output, the fields of the
\* agent, the files, the log and the open handles
IoApply(st, op) ==
    CASE op.op = "open" -> [st EXCEPT !.handles = @ \cup {op.path}]
      [] op.op = "close" -> [st EXCEPT !.handles = @ \ {op.path}]
      [] op.op = "log" -> [st EXCEPT !.log = Append(@, op.entry)]
      [] OTHER -> st

RECURSIVE IoRun(_, _)
IoRun(st, ops) == IF ops = <<>> THEN st ELSE IoRun(IoApply(st, Head(ops)), Tail(ops))

\* -------------------------------------------------------------- BaseAgent

AgentName(stage) ==
    CASE stage = "research" -> "research_agent"
      [] stage = "script" -> "script_agent"
      [] stage = "voice" -> "voice_agent"
      [] stage = "visual" -> "visual_agent"
      [] stage = "editor" -> "editor_agent"
      [] OTHER -> stage

\* BaseAgent.run up to the point where process waits for its provider
RunEnter(agent) ==
    [log |-> <<LogInfo(agent, "Starting processing")>>,
     ev |-> <<"run", "process">>]

\* `except Exception` that returns None and logs nothing
RunExceptSilent(agent, exc, log, ev) ==
    IF Caught(exc)
    THEN [ret |-> None, escaped |-> "", log |-> log, ev |-> ev \o <<"return_none">>]
    ELSE [ret |-> Unset, escaped |-> exc, log |-> log, ev |-> ev \o <<"raise">>]

\* BaseAgent.run, `except Exception`: the failure is logged and None returned
RunExcept(agent, exc, log, ev) ==
    IF Caught(exc)
    THEN [ret |-> None, escaped |-> "",
          log |-> log \o <<LogError(agent, "Error during processing")>>,
          ev |-> ev \o <<"return_none">>]
    ELSE [ret |-> Unset, escaped |-> exc, log |-> log, ev |-> ev \o <<"raise">>]

\* run with the result of validate_output ignored
RunFinishReturnsInvalid(agent, p, v) ==
    IF p.raised THEN RunExcept(agent, p.exc, <<>>, <<"process_raised">>)
    ELSE [ret |-> p.value, escaped |-> "",
          log |-> v.log \o <<LogInfo(agent, "Processing completed successfully")>>,
          ev |-> <<"process_returned", "validate", "validate_true", "return_value">>]

\* run without the call of validate_output
RunFinishSkipsValidation(agent, p, v) ==
    IF p.raised THEN RunExcept(agent, p.exc, <<>>, <<"process_raised">>)
    ELSE [ret |-> p.value, escaped |-> "",
          log |-> <<LogInfo(agent, "Processing completed successfully")>>,
          ev |-> <<"process_returned", "return_value">>]

\* run with validate_output called after the try block
RunFinishLeaksValidateError(agent, p, v) ==
    IF p.raised THEN RunExcept(agent, p.exc, <<>>, <<"process_raised">>)
    ELSE IF v.res = "raise"
    THEN [ret |-> Unset, escaped |-> "TypeError", log |-> v.log,
          ev |-> <<"process_returned", "validate", "validate_raised", "raise">>]
    ELSE IF v.res = "true"
    THEN [ret |-> p.value, escaped |-> "",
          log |-> v.log \o <<LogInfo(agent, "Processing completed successfully")>>,
          ev |-> <<"process_returned", "validate", "validate_true", "return_value">>]
    ELSE [ret |-> None, escaped |-> "",
          log |-> v.log \o <<LogError(agent, "Output validation failed")>>,
          ev |-> <<"process_returned", "validate", "validate_false", "return_none">>]

\* BaseAgent.run from the end of process on: p is how process ended, v what
\* validate_output does with p.value (v is not looked at when process raised)
RunFinish(agent, p, v) ==
    IF p.raised THEN RunExcept(agent, p.exc, <<>>, <<"process_raised">>)
    ELSE IF v.res = "raise"
    THEN RunExcept(agent, "TypeError", v.log,
                   <<"process_returned", "validate", "validate_raised">>)
    ELSE IF v.res = "true"
    THEN [ret |-> p.value, escaped |-> "",
          log |-> v.log \o <<LogInfo(agent, "Processing completed successfully")>>,
          ev |-> <<"process_returned", "validate", "validate_true", "return_value">>]
    ELSE [ret |-> None, escaped |-> "",
          log |-> v.log \o <<LogError(agent, "Output validation failed")>>,
          ev |-> <<"process_returned", "validate", "validate_false", "return_none">>]

\* ----------------------------------------------------- provider behaviour

MaxFacts == 2
MaxSources == 1
MaxSentences == 2

\* n words separated by single spaces
Words(n) == IF n = 0 THEN <<>> ELSE <<W(n)>>

RECURSIVE Bullets(_)
\* n bullet lines; the i-th holds i words
Bullets(n) ==
    IF n = 0 THEN <<>> ELSE Bullets(n - 1) \o <<T("- ")>> \o Words(n) \o <<T("\n")>>

ResearchResponse(nf, ns) ==
    <<T("FACTS:"), T("\n")>> \o Bullets(nf) \o <<T("SOURCES:"), T("\n")>> \o Bullets(ns)

ResearchResponses ==
    {ResearchResponse(nf, ns) : nf \in 0..MaxFacts, ns \in 0..MaxSources}

RECURSIVE Prose(_, _)
\* k sentences of w words, each closed by a full stop
Prose(k, w) ==
    IF k = 0 THEN <<>>
    ELSE IF k = 1 THEN Words(w) \o <<T(".")>>
    ELSE Words(w) \o <<T("."), T(" ")>> \o Prose(k - 1, w)

ScriptResponse(h, k, w, c) ==
    <<T("HOOK:"), T("\n")>> \o Words(h) \o <<T("\n"), T("MAIN CONTENT:"), T("\n")>>
        \o Prose(k, w) \o <<T("\n"), T("CALL TO ACTION:"), T("\n")>> \o Words(c)

\* words per sentence the text provider may write
SentenceWords == {25, 301}

ScriptResponses ==
    {ScriptResponse(1, k, w, 1) : k \in 1..MaxSentences, w \in SentenceWords}
        \cup {ScriptResponse(0, 1, 50, 1), ScriptResponse(1, 1, 50, 0)}

TextOutcomes(responses) ==
    {[raised |-> TRUE]} \cup {[raised |-> FALSE, text |-> t] : t \in responses}

\* sizes of the audio the speech provider may return
AudioSizes == {0, 32000}

\* what the bytes the speech provider returns are: audio, or something else
AudioKinds == {"mp3", "garbage"}

VoiceOutcomes ==
    {[raised |-> TRUE]}
        \cup {[raised |-> FALSE, bytes |-> n, kind |-> k] : n \in AudioSizes \ {0},
                                                          k \in AudioKinds}
        \cup {[raised |-> FALSE, bytes |-> 0, kind |-> "garbage"]}

ImageOutcomes == {"ok", "fail"}
EditorOutcomes == {"ok", "fail", "corrupt"}

\* ---------------------------------------------------------- orchestrator

VARIABLES
    req,      \* req[r]: the (topic, platform) of run r
    pc,       \* pc[r]: the state of run r
    profile,  \* profile[r]: platform_config of run r, once looked up
    inp,      \* inp[r][s]: the input handed to stage s
    out,      \* out[r][s]: what run of stage s returned
    imgs,     \* imgs[r]: image_paths of VisualAgent.process while it loops
    result,   \* result[r]: what generate_content returned
    err,      \* err[r]: the message the except handler printed
    calls,    \* calls[r][s]: the calls made on the agent of stage s, in order
    log,      \* log[r][s]: the log entries of stage s written for run r
    hist,     \* hist[r]: the states run r has been in
    resp,     \* resp[r]: what the providers answered to run r, in order
    fs,       \* the files under output/
    tmpl      \* one agent called on its own (the run template)

vars == <<req, pc, profile, inp, out, imgs, result, err, calls, log, hist, resp, fs, tmpl>>

States ==
    {"Init", "Researching", "Scripting", "Narrating", "Illustrating", "Composing",
     "Done", "Failed"}

StateOf(stage) ==
    CASE stage = "research" -> "Researching"
      [] stage = "script" -> "Scripting"
      [] stage = "voice" -> "Narrating"
      [] stage = "visual" -> "Illustrating"
      [] stage = "editor" -> "Composing"

StageIndex(stage) == CHOOSE i \in 1..Len(Stages) : Stages[i] = stage

\* the stages with Visual awaited before Voice
NextStageSwapped(stage) ==
    CASE stage = "research" -> "script"
      [] stage = "script" -> "visual"
      [] stage = "visual" -> "voice"
      [] stage = "voice" -> "editor"

\* generate_content: the stage awaited after a stage
NextStage(stage) == Stages[StageIndex(stage) + 1]

\* `not output`
Falsy(x) == x = None \/ DOMAIN x = {}

\* obj[key]
Subscript(obj, key) ==
    IF obj = None \/ obj = Unset THEN Raised("TypeError")
    ELSE IF key \notin DOMAIN obj THEN Raised("KeyError")
    ELSE Returned(obj[key])

\* the lookup with the first profile for a platform that has none
LookupProfileDefault(platform) ==
    IF platform \in DOMAIN ConfigPlatforms THEN Returned(ConfigPlatforms[platform])
    ELSE Returned(ConfigPlatforms.tiktok)

\* config["platforms"][platform]
LookupProfile(platform) == Subscript(ConfigPlatforms, platform)

FailMessage(stage) ==
    CASE stage = "research" -> "Research phase failed"
      [] stage = "script" -> "Script generation failed"
      [] stage = "voice" -> "Voice-over generation failed"
      [] stage = "visual" -> "Visual asset generation failed"
      [] stage = "editor" -> "Video editing failed"

\* the first exception among the subscripts, or the record built from them
Build(gets, value) ==
    IF \E i \in 1..Len(gets) : gets[i].raised
    THEN Raised(gets[CHOOSE i \in 1..Len(gets) :
                        gets[i].raised /\ \A j \in 1..(i - 1) : ~gets[j].raised].exc)
    ELSE Returned(value)

\* generate_content: research_input
ResearchInput(rq, prof) ==
    Build(<<Subscript(prof, "style")>>,
          [topic |-> rq.topic, platform |-> rq.platform, style |-> prof.style])

\* generate_content: script_input
ScriptInput(rq, prof, o) ==
    Build(<<Subscript(o.research, "facts"), Subscript(prof, "style"),
            Subscript(prof, "max_duration")>>,
          [facts |-> o.research.facts, platform |-> rq.platform,
           style |-> prof.style, duration |-> prof.max_duration])

\* generate_content: voice_input
VoiceInput(rq, prof, o) ==
    Build(<<Subscript(o.script, "script"), Subscript(prof, "style")>>,
          [script |-> o.script.script, platform |-> rq.platform, style |-> prof.style])

\* visual_input with the hook in place of the script
VisualInputFromHook(rq, prof, o) ==
    Build(<<Subscript(o.script, "hook"), Subscript(prof, "style"),
            Subscript(prof, "aspect_ratio")>>,
          [script |-> o.script.hook, platform |-> rq.platform,
           style |-> prof.style, aspect_ratio |-> prof.aspect_ratio])

\* generate_content: visual_input
VisualInput(rq, prof, o) ==
    Build(<<Subscript(o.script, "script"), Subscript(prof, "style"),
            Subscript(prof, "aspect_ratio")>>,
          [script |-> o.script.script, platform |-> rq.platform,
           style |-> prof.style, aspect_ratio |-> prof.aspect_ratio])

\* editor_input with the first image in place of the audio
EditorInputSwapped(rq, prof, o) ==
    Build(<<Subscript(o.visual, "image_paths"), Subscript(o.voice, "audio_path"),
            Subscript(prof, "max_duration"), Subscript(prof, "aspect_ratio")>>,
          [image_paths |-> o.visual.image_paths,
           audio_path |-> o.visual.image_paths[1], platform |-> rq.platform,
           duration |-> prof.max_duration, aspect_ratio |-> prof.aspect_ratio])

\* generate_content: editor_input
EditorInput(rq, prof, o) ==
    Build(<<Subscript(o.visual, "image_paths"), Subscript(o.voice, "audio_path"),
            Subscript(prof, "max_duration"), Subscript(prof, "aspect_ratio")>>,
          [image_paths |-> o.visual.image_paths,
           audio_path |-> o.voice.audio_path, platform |-> rq.platform,
           duration |-> prof.max_duration, aspect_ratio |-> prof.aspect_ratio])

\* generate_content: the input of each stage
BuildInput(stage, rq, prof, o) ==
    CASE stage = "research" -> ResearchInput(rq, prof)
      [] stage = "script" -> ScriptInput(rq, prof, o)
      [] stage = "voice" -> VoiceInput(rq, prof, o)
      [] stage = "visual" -> VisualInput(rq, prof, o)
      [] stage = "editor" -> EditorInput(rq, prof, o)

\* the result with the metadata of Voice and Visual exchanged
PipelineResultSwapped(rq, o) ==
    [video_path |-> o.editor.video_path,
     metadata |-> [topic |-> rq.topic,
                   platform |-> rq.platform,
                   research |-> o.research.metadata,
                   script |-> o.script.metadata,
                   voice |-> o.visual.metadata,
                   visual |-> o.voice.metadata,
                   editor |-> o.editor.metadata]]

\* generate_content: the value returned after the last stage
PipelineResult(rq, o) ==
    [video_path |-> o.editor.video_path,
     metadata |-> [topic |-> rq.topic,
                   platform |-> rq.platform,
                   research |-> o.research.metadata,
                   script |-> o.script.metadata,
                   voice |-> o.voice.metadata,
                   visual |-> o.visual.metadata,
                   editor |-> o.editor.metadata]]

\* the handler as `except KeyError`
ExceptHandlerKeyErrorOnly(exc) == IF exc = "KeyError" THEN None ELSE [raised |-> exc]

\* generate_content: `except Exception as e: ... return None`
ExceptHandler(exc) == IF Caught(exc) THEN None ELSE [raised |-> exc]

\* no check of what run returned
StageFailedNever(ret) == FALSE

\* generate_content: `if not <stage>_output: raise Exception(...)`
StageFailed(ret) == Falsy(ret)

\* the keys process reads from its input before it calls its provider
RequiredInput(stage) ==
    CASE stage = "research" -> {"topic", "platform", "style"}
      [] stage = "script" -> {"facts", "platform", "style", "duration"}
      [] stage = "voice" -> {"script", "platform", "style"}
      [] stage = "visual" -> {"script", "platform", "style", "aspect_ratio"}
      [] stage = "editor" -> {"image_paths", "audio_path", "platform", "duration",
                              "aspect_ratio"}

\* validate_output of the agent of a stage
Validate(stage, output, files) ==
    CASE stage = "research" -> ResearchValidate(output)
      [] stage = "script" -> ScriptValidate(output)
      [] stage = "voice" -> VoiceValidate(output, files)
      [] stage = "visual" -> VisualValidate(output, files)
      [] stage = "editor" -> EditorValidate(output, files)

\* what validate_output of a stage does besides returning, in order
ValidateIO(stage, output, files) ==
    (CASE stage = "voice" -> VoiceValidateReads(output, files)
       [] stage = "visual" ->
             IF output = None \/ ~HasKeys(output, {"image_paths", "metadata"}) THEN <<>>
             ELSE VisualValidateReads(output.image_paths, 1, files)
       [] stage = "editor" -> EditorValidateReads(output, files)
       [] OTHER -> <<>>)
        \o LogOps(Validate(stage, output, files).log)

\* what validate_output of a stage finds when it is called
ValidateEntry(stage, output, files) ==
    [output |-> output, fields |-> ConfigAgents[stage], files |-> files,
     log |-> <<>>, handles |-> {}]

\* what validate_output of a stage leaves when it has returned
ValidateExit(stage, output, files) ==
    IoRun(ValidateEntry(stage, output, files), ValidateIO(stage, output, files))

\* The state of one run as a record, so that the steps of generate_content
\* compose as functions of it.
Snap(r) ==
    [req |-> req[r], pc |-> pc[r], profile |-> profile[r], inp |-> inp[r],
     out |-> out[r], imgs |-> imgs[r], result |-> result[r], err |-> err[r],
     calls |-> calls[r], log |-> log[r], hist |-> hist[r], resp |-> resp[r]]

\* a step that sweeps output/ when the run has failed
CommitCleansOnFailure(r, rs, files) ==
    /\ pc' = [pc EXCEPT ![r] = rs.pc]
    /\ profile' = [profile EXCEPT ![r] = rs.profile]
    /\ inp' = [inp EXCEPT ![r] = rs.inp]
    /\ out' = [out EXCEPT ![r] = rs.out]
    /\ imgs' = [imgs EXCEPT ![r] = rs.imgs]
    /\ result' = [result EXCEPT ![r] = rs.result]
    /\ err' = [err EXCEPT ![r] = rs.err]
    /\ calls' = [calls EXCEPT ![r] = rs.calls]
    /\ log' = [log EXCEPT ![r] = rs.log]
    /\ hist' = [hist EXCEPT ![r] = rs.hist]
    /\ resp' = [resp EXCEPT ![r] = rs.resp]
    /\ fs' = IF rs.pc = "Failed" THEN <<>> ELSE files
    /\ UNCHANGED <<req, tmpl>>

Commit(r, rs, files) ==
    /\ pc' = [pc EXCEPT ![r] = rs.pc]
    /\ profile' = [profile EXCEPT ![r] = rs.profile]
    /\ inp' = [inp EXCEPT ![r] = rs.inp]
    /\ out' = [out EXCEPT ![r] = rs.out]
    /\ imgs' = [imgs EXCEPT ![r] = rs.imgs]
    /\ result' = [result EXCEPT ![r] = rs.result]
    /\ err' = [err EXCEPT ![r] = rs.err]
    /\ calls' = [calls EXCEPT ![r] = rs.calls]
    /\ log' = [log EXCEPT ![r] = rs.log]
    /\ hist' = [hist EXCEPT ![r] = rs.hist]
    /\ resp' = [resp EXCEPT ![r] = rs.resp]
    /\ fs' = files
    /\ UNCHANGED <<req, tmpl>>

Goto(rs, state) == [rs EXCEPT !.pc = state, !.hist = Append(@, state)]

\* a handler that throws away what the stages returned
HandleDropsOutputs(rs, exc, msg) ==
    [Goto(rs, "Failed") EXCEPT !.result = ExceptHandler(exc), !.err = msg,
                               !.out = [s \in StageNames |-> Unset]]

\* a handler that starts the run again
HandleRestarts(rs, exc, msg) ==
    [req |-> rs.req, pc |-> "Init", profile |-> Unset,
     inp |-> [s \in StageNames |-> Unset], out |-> [s \in StageNames |-> Unset],
     imgs |-> <<>>, result |-> Pending, err |-> "",
     calls |-> [s \in StageNames |-> <<>>], log |-> [s \in StageNames |-> <<>>],
     hist |-> <<"Init">>, resp |-> <<>>]

\* an exception reaches the except clause of generate_content
Handle(rs, exc, msg) ==
    [Goto(rs, "Failed") EXCEPT !.result = ExceptHandler(exc), !.err = msg]

\* the last stage returned a value: the result is assembled and returned
Assemble(rs) ==
    LET built == Build(<<Subscript(rs.out.editor, "video_path"),
                         Subscript(rs.out.research, "metadata"),
                         Subscript(rs.out.script, "metadata"),
                         Subscript(rs.out.voice, "metadata"),
                         Subscript(rs.out.visual, "metadata"),
                         Subscript(rs.out.editor, "metadata")>>,
                       PipelineResult(rs.req, rs.out))
    IN  IF built.raised THEN Handle(rs, built.exc, built.exc)
        ELSE [Goto(rs, "Done") EXCEPT !.result = built.value]

\* what process itself logs before it raises: _get_research, _get_script and
\* _generate_image log the failure of their provider and raise it again; a
\* key that is missing is met before them, and Voice and Editor log nothing
ProcessLog(stage, p) ==
    IF p.raised /\ p.exc = "ProviderFailure" /\ stage \in {"research", "script", "visual"}
    THEN <<LogError(AgentName(stage),
                    CASE stage = "research" -> "Error getting research from Ollama"
                      [] stage = "script" -> "Error getting script from OpenAI"
                      [] stage = "visual" -> "Error generating image")>>
    ELSE <<>>

RECURSIVE EnterStage(_, _, _)
RECURSIVE FinishStage(_, _, _, _)

\* generate_content builds the input of a stage and awaits run, which logs
\* and calls process; process runs up to its first provider call
EnterStage(rs, stage, files) ==
    LET bi == BuildInput(stage, rs.req, rs.profile, rs.out) IN
    IF bi.raised THEN Handle(rs, bi.exc, bi.exc)
    ELSE LET entered == RunEnter(AgentName(stage))
             rs1 == [Goto(rs, StateOf(stage)) EXCEPT
                        !.inp[stage] = bi.value,
                        !.calls[stage] = entered.ev,
                        !.log[stage] = entered.log,
                        !.imgs = <<>>]
         IN  IF ~HasKeys(bi.value, RequiredInput(stage))
             THEN FinishStage(rs1, stage, Raised("KeyError"), files)
             ELSE IF stage = "visual"
                     /\ GenerateImagePrompts(bi.value.script, bi.value.style) = <<>>
             THEN FinishStage(rs1, stage, Returned(VisualOutput(bi.value, <<>>)), files)
             ELSE [rs1 EXCEPT !.calls[stage] = Append(@, "provider")]

\* process of a stage ended as p: run validates and returns, and
\* generate_content goes on to the next stage, to Done or to Failed
FinishStage(rs, stage, p, files) ==
    LET rf == RunFinish(AgentName(stage), p, Validate(stage, p.value, files))
        rs1 == [rs EXCEPT !.out[stage] = rf.ret,
                          !.calls[stage] = @ \o rf.ev,
                          !.log[stage] = @ \o ProcessLog(stage, p) \o rf.log]
    IN  IF rf.escaped # "" THEN Handle(rs1, rf.escaped, rf.escaped)
        ELSE IF StageFailed(rf.ret) THEN Handle(rs1, "Exception", FailMessage(stage))
        ELSE IF stage = "editor" THEN Assemble(rs1)
        ELSE EnterStage(rs1, NextStage(stage), files)

\* the state of a run when a provider has answered
Answered(rs, stage, answer) ==
    [rs EXCEPT !.resp = Append(@, [stage |-> stage, answer |-> answer])]

\* Research goes on from the answer of the text provider
ResearchStep(rs, files, prov, r) ==
    [rs |-> FinishStage(Answered(rs, "research", prov), "research",
                        ResearchProcess(rs.inp.research, prov), files),
     files |-> files]

\* Script goes on from the answer of the text provider
ScriptStep(rs, files, prov, r) ==
    [rs |-> FinishStage(Answered(rs, "script", prov), "script",
                        ScriptProcess(rs.inp.script, prov), files),
     files |-> files]

\* Voice goes on from the answer of the speech provider
VoiceStep(rs, files, prov, r) ==
    LET done == VoiceProcess(rs.inp.voice, prov, files, r) IN
    [rs |-> FinishStage(Answered(rs, "voice", prov), "voice", done.p, done.files),
     files |-> done.files]

\* Visual goes on from the answer of the image provider to one request
ImageStep(rs, files, outcome, r) ==
    LET input == rs.inp.visual
        prompts == GenerateImagePrompts(input.script, input.style)
        i == Len(rs.imgs) + 1
        done == GenerateImage(prompts[i], input.platform, input.aspect_ratio, i,
                              outcome, files, r)
        rs0 == Answered(rs, "visual", [outcome |-> outcome])
    IN  IF done.p.raised
        THEN [rs |-> FinishStage(rs0, "visual", done.p, done.files), files |-> done.files]
        ELSE LET paths == Append(rs.imgs, done.p.value)
                 rs1 == [rs0 EXCEPT !.imgs = paths]
             IN  IF i < Len(prompts)
                 THEN [rs |-> [rs1 EXCEPT !.calls["visual"] = Append(@, "provider")],
                       files |-> done.files]
                 ELSE [rs |-> FinishStage(rs1, "visual",
                                          Returned(VisualOutput(input, paths)),
                                          done.files),
                       files |-> done.files]

\* Editor goes on from the end of composing and encoding
EditorStep(rs, files, outcome, r) ==
    LET done == EditorProcess(rs.inp.editor, outcome, files, r) IN
    [rs |-> FinishStage(Answered(rs, "editor", [outcome |-> outcome]), "editor",
                        done.p, done.files),
     files |-> done.files]

\* generate_content is called: the profile is looked up and Research starts
BeginStep(rs, files) ==
    LET found == LookupProfile(rs.req.platform) IN
    IF found.raised THEN Handle(rs, found.exc, found.exc)
    ELSE EnterStage([rs EXCEPT !.profile = found.value], "research", files)

Begin(r) ==
    /\ pc[r] = "Init"
    /\ Commit(r, BeginStep(Snap(r), fs), fs)

\* the text provider answers Research with one of the outcomes
ResearchReturnOf(r, outcomes) ==
    /\ pc[r] = "Researching"
    /\ \E prov \in outcomes :
          LET st == ResearchStep(Snap(r), fs, prov, r) IN Commit(r, st.rs, st.files)

ResearchReturn(r) == ResearchReturnOf(r, TextOutcomes(ResearchResponses))

\* the text provider answers Script with one of the outcomes
ScriptReturnOf(r, outcomes) ==
    /\ pc[r] = "Scripting"
    /\ \E prov \in outcomes :
          LET st == ScriptStep(Snap(r), fs, prov, r) IN Commit(r, st.rs, st.files)

ScriptReturn(r) == ScriptReturnOf(r, TextOutcomes(ScriptResponses))

\* the speech provider answers Voice with one of the outcomes
VoiceReturnOf(r, outcomes) ==
    /\ pc[r] = "Narrating"
    /\ \E prov \in outcomes :
          LET st == VoiceStep(Snap(r), fs, prov, r) IN Commit(r, st.rs, st.files)

VoiceReturn(r) == VoiceReturnOf(r, VoiceOutcomes)

\* the image provider answers one request of Visual with one of the outcomes
ImageReturnOf(r, outcomes) ==
    /\ pc[r] = "Illustrating"
    /\ \E outcome \in outcomes :
          LET st == ImageStep(Snap(r), fs, outcome, r) IN Commit(r, st.rs, st.files)

ImageReturn(r) == ImageReturnOf(r, ImageOutcomes)

\* composing and encoding end with one of the outcomes
EditorReturnOf(r, outcomes) ==
    /\ pc[r] = "Composing"
    /\ \E outcome \in outcomes :
          LET st == EditorStep(Snap(r), fs, outcome, r) IN Commit(r, st.rs, st.files)

EditorReturn(r) == EditorReturnOf(r, EditorOutcomes)

NoStage == [s \in StageNames |-> Unset]
NoCalls == [s \in StageNames |-> <<>>]

\* the state of a run with request rq before generate_content is called
FreshRun(rq) ==
    [req |-> rq, pc |-> "Init", profile |-> Unset, inp |-> NoStage, out |-> NoStage,
     imgs |-> <<>>, result |-> Pending, err |-> "", calls |-> NoCalls, log |-> NoCalls,
     hist |-> <<"Init">>, resp |-> <<>>]

\* the requests of the two runs
Requests ==
    {rq \in [Runs -> [topic : Topics, platform : PlatformNames]] :
        /\ rq["A"] = [topic |-> "pyramids", platform |-> "tiktok"]
        /\ rq["B"].platform # rq["A"].platform => rq["B"].topic = rq["A"].topic}

TmplInit == [phase |-> "idle"]

Init ==
    /\ req \in Requests
    /\ pc = [r \in Runs |-> "Init"]
    /\ profile = [r \in Runs |-> Unset]
    /\ inp = [r \in Runs |-> NoStage]
    /\ out = [r \in Runs |-> NoStage]
    /\ imgs = [r \in Runs |-> <<>>]
    /\ result = [r \in Runs |-> Pending]
    /\ err = [r \in Runs |-> ""]
    /\ calls = [r \in Runs |-> NoCalls]
    /\ log = [r \in Runs |-> NoCalls]
    /\ hist = [r \in Runs |-> <<"Init">>]
    /\ resp = [r \in Runs |-> <<>>]
    /\ fs = <<>>
    /\ tmpl = TmplInit

\* -------------------------------------------- one agent called on its own

\* how often the agent is called
MaxTmplCalls == 3

TmplInputs == {[topic |-> t] : t \in Topics} \cup {[facts |-> <<>>]}

\* what an implementation of process may do: raise, or return a dictionary
TmplProcessOutcomes ==
    {Raised(e) : e \in {"KeyError", "ProviderFailure", "ZeroDivisionError"}}
        \cup {Returned(o) : o \in {[metadata |-> "m"], [facts |-> <<>>, metadata |-> "m"],
                                   [video_path |-> "v"], [video_path |-> "v", metadata |-> "m"]}}

\* what an implementation of validate_output may do with an output
TmplValidateOutcomes ==
    {[res |-> x, log |-> <<>>] : x \in {"true", "false", "raise"}}

\* run is awaited: it logs and calls process
TmplCall ==
    /\ tmpl.phase \in {"idle", "returned"}
    /\ (IF tmpl.phase = "idle" THEN 0 ELSE tmpl.n) < MaxTmplCalls
    /\ \E input \in TmplInputs :
          tmpl' = [phase |-> "waiting", input |-> input,
                   n |-> (IF tmpl.phase = "idle" THEN 0 ELSE tmpl.n) + 1,
                   log |-> RunEnter("agent").log, ev |-> RunEnter("agent").ev]
    /\ UNCHANGED <<req, pc, profile, inp, out, imgs, result, err, calls, log, hist, resp, fs>>

\* process ends and run goes on to its end
TmplReturn ==
    /\ tmpl.phase = "waiting"
    /\ \E p \in TmplProcessOutcomes, v \in TmplValidateOutcomes :
          LET rf == RunFinish("agent", p, v) IN
          tmpl' = [phase |-> "returned", input |-> tmpl.input, n |-> tmpl.n,
                   p |-> p, v |-> (IF p.raised THEN "unused" ELSE v.res),
                   ret |-> rf.ret, escaped |-> rf.escaped,
                   log |-> tmpl.log \o rf.log, ev |-> tmpl.ev \o rf.ev]
    /\ UNCHANGED <<req, pc, profile, inp, out, imgs, result, err, calls, log, hist, resp, fs>>

InitRun == Init /\ req["B"] = req["A"]

NextRun == TmplCall \/ TmplReturn

SpecRun == InitRun /\ [][NextRun]_vars

\* ------------------------------------- validate_output called on its own

\* the longest list in an output handed to validate_output
MaxListLen == 2

\* a list of n texts
Items(n) == [i \in 1..n |-> Words(1)]

\* a dictionary with some of the keys of another
Restrict(d, keys) == [k \in keys |-> d[k]]

\* the dictionaries that hold some of the keys of d, none and all included
Partial(d) == {Restrict(d, keys) : keys \in SUBSET (DOMAIN d)}

ResearchOutputs ==
    UNION {Partial([facts |-> Items(nf), sources |-> Items(ns),
                    metadata |-> [model |-> ConfigAgents.research.model]]) :
              nf \in 0..MaxListLen, ns \in 0..MaxListLen}

\* scripts of no word, of white space only, and of 49, 50, 300 and 301 words
ScriptTexts ==
    {<<>>, <<T(" ")>>, Words(49), Words(50), Prose(2, 25), Words(300), Prose(2, 150),
     Words(301)}

ScriptOutputs ==
    UNION {Partial([script |-> t, hook |-> h, call_to_action |-> c,
                    metadata |-> [model |-> ConfigAgents.script.model]]) :
              t \in ScriptTexts, h \in {<<>>, Words(1)}, c \in {<<>>, Words(1)}}

\* the directory output/ with one file, or with none when content is None
OneFile(path, content) == IF content = None THEN <<>> ELSE FsWrite(<<>>, path, content)

VoiceOutputs ==
    UNION {Partial([audio_path |-> AudioPath("tiktok", Words(50)),
                    duration |-> [num |-> n, den |-> AudioBytesPerSecond],
                    metadata |-> [voice_id |-> ConfigAgents.voice.voice_id]]) :
              n \in {0 - 32000, 0, 32000}}

VoiceFiles ==
    {OneFile(AudioPath("tiktok", Words(50)), c) :
        c \in {None} \cup {[kind |-> k, by |-> "A", bytes |-> 32000, script |-> 0] :
                              k \in AudioKinds}}

\* lists of at most MaxListLen of the first MaxListLen image files
VisualOutputs ==
    UNION {Partial([image_paths |-> [i \in 1..n |-> ImagePath("tiktok", pick[i])],
                    metadata |-> [provider |-> ConfigAgents.visual.provider]]) :
              n \in 0..MaxListLen, pick \in [1..MaxListLen -> 0..(MaxListLen - 1)]}

\* every image file is missing, an image, or something else
VisualFiles ==
    {[p \in {ImagePath("tiktok", i) : i \in present} |->
         [kind |-> (IF p[3] \in images THEN "png" ELSE "garbage"), by |-> "A"]] :
        present \in SUBSET (0..(MaxListLen - 1)), images \in SUBSET (0..(MaxListLen - 1))}

EditorOutputs ==
    Partial([video_path |-> VideoPath("tiktok"),
             metadata |-> [video_quality |-> ConfigAgents.editor.video_quality]])

\* the video file is missing, cannot be opened, or has some duration
EditorFiles ==
    {OneFile(VideoPath("tiktok"), c) :
        c \in {None} \cup {[kind |-> "mp4", by |-> "A", playable |-> ok,
                            duration |-> [num |-> n, den |-> 1]] :
                              ok \in BOOLEAN, n \in {0 - 60, 0, 60}}}

\* a run that awaits its Editor, the stages before it having returned
AtEditor ==
    [FreshRun([topic |-> "pyramids", platform |-> "tiktok"]) EXCEPT
        !.pc = "Composing",
        !.out = [s \in StageNames |->
                    IF s = "editor" THEN Unset ELSE [metadata |-> [stage |-> s]]]]

\* validate_output of a stage is called on an output, and run and
\* generate_content go on from what it returns
ValidateCall(stage, output, files) ==
    /\ tmpl.phase \in {"idle", "validated"}
    /\ LET v == Validate(stage, output, files)
           rf == RunFinish(AgentName(stage), Returned(output), v)
       IN  tmpl' = [phase |-> "validated", stage |-> stage, output |-> output,
                    files |-> files, res |-> v.res, log |-> v.log, ret |-> rf.ret,
                    io |-> ValidateIO(stage, output, files),
                    after |-> ValidateExit(stage, output, files),
                    pc |-> IF stage = "editor"
                           THEN FinishStage(AtEditor, stage, Returned(output), files).pc
                           ELSE "Init"]
    /\ UNCHANGED <<req, pc, profile, inp, out, imgs, result, err, calls, log, hist, resp, fs>>

ResearchValidateCall == \E output \in ResearchOutputs : ValidateCall("research", output, <<>>)

ScriptValidateCall == \E output \in ScriptOutputs : ValidateCall("script", output, <<>>)

VoiceValidateCall ==
    \E output \in VoiceOutputs, files \in VoiceFiles : ValidateCall("voice", output, files)

VisualValidateCall ==
    \E output \in VisualOutputs, files \in VisualFiles : ValidateCall("visual", output, files)

EditorValidateCall ==
    \E output \in EditorOutputs, files \in EditorFiles : ValidateCall("editor", output, files)

NextValidate ==
    \/ ResearchValidateCall
    \/ ScriptValidateCall
    \/ VoiceValidateCall
    \/ VisualValidateCall
    \/ EditorValidateCall

SpecValidate == InitRun /\ [][NextValidate]_vars

\* ----------------------------------- run of one agent called on its own

\* the parts a response of a text provider is made of, at most
MaxParts == 3

RECURSIVE Compose(_, _)
\* the sequences of lines made of at most k of the parts
Compose(parts, k) ==
    IF k = 0 THEN {<<>>}
    ELSE LET shorter == Compose(parts, k - 1) IN
         shorter \cup {p \o rest : p \in parts, rest \in shorter}

\* a bullet line
Bullet(n) == <<T("- "), W(n)>>

\* what the text provider may write to Research: a header with no bullet,
\* one or two; a bullet on its own; an indented bullet; a line that is no
\* bullet; a line of white space
ResearchParts ==
    {<<hd>> \o body : hd \in {<<T("FACTS:")>>, <<T("SOURCES:")>>},
                      body \in {<<>>, <<Bullet(1)>>, <<Bullet(1), Bullet(2)>>}}
        \cup {<<Bullet(3)>>, <<<<T(" "), T("- "), W(4)>>>>, <<Words(2)>>, <<<<T(" ")>>>>}

\* what the text provider may write to Script: a header with no line, one or
\* two; a line of text; a header with text on its line; a line of white space
ScriptParts ==
    {<<hd>> \o body : hd \in {<<T("HOOK:")>>, <<T("MAIN CONTENT:")>>,
                              <<T("CALL TO ACTION:")>>},
                      body \in {<<>>, <<Words(60)>>, <<Words(1), Words(60)>>}}
        \cup {<<Words(2)>>, <<<<T("HOOK:"), T(" "), W(1)>>>>, <<<<T(" ")>>>>}

\* the text provider raises, or returns the lines joined by line feeds
TextAnswers(parts) ==
    {[raised |-> TRUE]}
        \cup {[raised |-> FALSE, text |-> Join(<<T("\n")>>, lines), lines |-> lines] :
                 lines \in Compose(parts, MaxParts)}

ResearchInputs ==
    Partial([topic |-> "pyramids", platform |-> "tiktok",
             style |-> ConfigPlatforms.tiktok.style])

ScriptInputs ==
    Partial([facts |-> Items(1), platform |-> "tiktok",
             style |-> ConfigPlatforms.tiktok.style,
             duration |-> ConfigPlatforms.tiktok.max_duration])

VoiceInputs ==
    Partial([script |-> Words(60), platform |-> "tiktok",
             style |-> ConfigPlatforms.tiktok.style])

\* scripts of no sentence, of one and more, and of sentences with nothing
\* between two full stops
VisualScripts ==
    {<<>>, <<T(" ")>>, <<T("."), T(" "), T(".")>>, Words(3),
     Words(2) \o <<T("."), T("."), T(" ")>> \o Words(3)}
        \cup {Prose(k, 2) : k \in 1..MaxSentences}

VisualInputs ==
    Partial([script |-> Prose(1, 2), platform |-> "tiktok",
             style |-> ConfigPlatforms.tiktok.style,
             aspect_ratio |-> ConfigPlatforms.tiktok.aspect_ratio])
        \cup {[script |-> s, platform |-> "tiktok",
               style |-> ConfigPlatforms.tiktok.style,
               aspect_ratio |-> ConfigPlatforms.tiktok.aspect_ratio] : s \in VisualScripts}

\* what the image provider does with each request
VisualAnswers == [1..MaxSentences -> ImageOutcomes]

EditorInputOf(n) ==
    [image_paths |-> [i \in 1..n |-> ImagePath("tiktok", i - 1)],
     audio_path |-> AudioPath("tiktok", Words(60)), platform |-> "tiktok",
     duration |-> ConfigPlatforms.tiktok.max_duration,
     aspect_ratio |-> ConfigPlatforms.tiktok.aspect_ratio]

EditorInputs == Partial(EditorInputOf(1)) \cup {EditorInputOf(n) : n \in 0..MaxListLen}

\* output/ with the audio and the first n images
Produced(n, kind) ==
    [p \in {AudioPath("tiktok", Words(60))} \cup {ImagePath("tiktok", i - 1) : i \in 1..n} |->
        IF p[1] = "output/audio"
        THEN [kind |-> kind, by |-> "A", bytes |-> 32000, script |-> Hash(Words(60))]
        ELSE [kind |-> "png", by |-> "A"]]

\* every image is there, or the last one is missing, or the audio is no audio
EditorInputFiles ==
    {Produced(MaxListLen, "mp3"), Produced(MaxListLen - 1, "mp3"),
     Produced(MaxListLen, "garbage")}

\* process of the agent of a stage, from the call to its end
Process(stage, input, answer, files, r) ==
    CASE stage = "research" -> [p |-> ResearchProcess(input, answer), files |-> files]
      [] stage = "script" -> [p |-> ScriptProcess(input, answer), files |-> files]
      [] stage = "voice" -> VoiceProcess(input, answer, files, r)
      [] stage = "visual" -> VisualProcess(input, answer, files, r)
      [] stage = "editor" -> EditorProcess(input, answer, files, r)

\* answers of the provider of a stage that differ in every way that shows
Probes(stage) ==
    CASE stage = "research" ->
            {[raised |-> TRUE], [raised |-> FALSE, text |-> ResearchResponse(1, 1)]}
      [] stage = "script" ->
            {[raised |-> TRUE], [raised |-> FALSE, text |-> ScriptResponse(1, 1, 60, 1)]}
      [] stage = "voice" -> VoiceOutcomes
      [] stage = "visual" -> VisualAnswers
      [] stage = "editor" -> EditorOutcomes

\* what the stages return in a run that goes well
Usual ==
    [research |-> [facts |-> Items(1), sources |-> Items(1),
                   metadata |-> [platform |-> "tiktok"]],
     script |-> [script |-> Words(60), hook |-> Words(1), call_to_action |-> Words(1),
                 metadata |-> [platform |-> "tiktok"]],
     voice |-> [audio_path |-> AudioPath("tiktok", Words(60)),
                duration |-> [num |-> 32000, den |-> AudioBytesPerSecond],
                metadata |-> [platform |-> "tiktok"]],
     visual |-> [image_paths |-> <<ImagePath("tiktok", 0)>>,
                 metadata |-> [platform |-> "tiktok"]],
     editor |-> [video_path |-> VideoPath("tiktok"), metadata |-> [platform |-> "tiktok"]]]

\* a run that awaits the agent of a stage, the stages before it having
\* returned
AtStage(stage) ==
    [FreshRun([topic |-> "pyramids", platform |-> "tiktok"]) EXCEPT
        !.pc = StateOf(stage),
        !.profile = ConfigPlatforms.tiktok,
        !.out = [s \in StageNames |->
                    IF StageIndex(s) < StageIndex(stage) THEN Usual[s] ELSE Unset]]

\* run of the agent of a stage is awaited with an input
ProcessCall(stage, input, files) ==
    /\ tmpl.phase = "idle"
    /\ tmpl' = [phase |-> "called", stage |-> stage, input |-> input, files |-> files,
                log |-> RunEnter(AgentName(stage)).log,
                ev |-> RunEnter(AgentName(stage)).ev]
    /\ UNCHANGED <<req, pc, profile, inp, out, imgs, result, err, calls, log, hist, resp, fs>>

\* process goes on to its end with what its provider answers, and run
\* validates and returns
ProcessReturn(stage, answer) ==
    /\ tmpl.phase = "called"
    /\ tmpl.stage = stage
    /\ LET done == Process(stage, tmpl.input, answer, tmpl.files, "A")
           rf == RunFinish(AgentName(stage), done.p,
                           Validate(stage, done.p.value, done.files))
       IN  tmpl' = [phase |-> "processed", stage |-> stage, input |-> tmpl.input,
                    files |-> tmpl.files, answer |-> answer, p |-> done.p,
                    after |-> done.files, ret |-> rf.ret,
                    log |-> tmpl.log \o ProcessLog(stage, done.p) \o rf.log,
                    ev |-> RunEnter(AgentName(stage)).ev \o rf.ev,
                    blind |-> \A a \in Probes(stage) :
                                 Process(stage, tmpl.input, a, tmpl.files, "A") = done,
                    pc |-> FinishStage(AtStage(stage), stage, done.p, done.files).pc,
                    next |-> IF stage = "editor" THEN Unset
                             ELSE FinishStage(AtStage(stage), stage, done.p,
                                              done.files).inp[NextStage(stage)]]
    /\ UNCHANGED <<req, pc, profile, inp, out, imgs, result, err, calls, log, hist, resp, fs>>

ResearchProcessCall == \E input \in ResearchInputs : ProcessCall("research", input, <<>>)
ScriptProcessCall == \E input \in ScriptInputs : ProcessCall("script", input, <<>>)
VoiceProcessCall == \E input \in VoiceInputs : ProcessCall("voice", input, <<>>)
VisualProcessCall == \E input \in VisualInputs : ProcessCall("visual", input, <<>>)
EditorProcessCall ==
    \E input \in EditorInputs, files \in EditorInputFiles : ProcessCall("editor", input, files)

\* the answers given to the call that is awaited: to an input that lacks a
\* key, the ones of Probes; to a complete input, all of them
AnswersTo(stage, all) ==
    IF HasKeys(tmpl.input, RequiredInput(stage)) THEN all ELSE Probes(stage)

ResearchProcessReturn ==
    /\ tmpl.phase = "called" /\ tmpl.stage = "research"
    /\ \E prov \in AnswersTo("research", TextAnswers(ResearchParts)) :
          ProcessReturn("research", prov)

ScriptProcessReturn ==
    /\ tmpl.phase = "called" /\ tmpl.stage = "script"
    /\ \E prov \in AnswersTo("script", TextAnswers(ScriptParts)) :
          ProcessReturn("script", prov)

VoiceProcessReturn == \E prov \in VoiceOutcomes : ProcessReturn("voice", prov)
VisualProcessReturn == \E outcomes \in VisualAnswers : ProcessReturn("visual", outcomes)
EditorProcessReturn == \E outcome \in EditorOutcomes : ProcessReturn("editor", outcome)

NextProcess ==
    \/ ResearchProcessCall
    \/ ScriptProcessCall
    \/ VoiceProcessCall
    \/ VisualProcessCall
    \/ EditorProcessCall
    \/ ResearchProcessReturn
    \/ ScriptProcessReturn
    \/ VoiceProcessReturn
    \/ VisualProcessReturn
    \/ EditorProcessReturn

SpecProcess == InitRun /\ [][NextProcess]_vars

Next ==
    \E r \in Runs :
        \/ Begin(r)
        \/ ResearchReturn(r)
        \/ ScriptReturn(r)
        \/ VoiceReturn(r)
        \/ ImageReturn(r)
        \/ EditorReturn(r)

Spec == Init /\ [][Next]_vars

\* the provider run r waits for fails
ProviderFails(r) ==
    \/ ResearchReturnOf(r, {[raised |-> TRUE]})
    \/ ScriptReturnOf(r, {[raised |-> TRUE]})
    \/ VoiceReturnOf(r, {[raised |-> TRUE]})
    \/ ImageReturnOf(r, {"fail"})
    \/ EditorReturnOf(r, {"fail"})

\* the provider run r waits for fails or returns
ProviderReturn(r) ==
    \/ ProviderFails(r)
    \/ ResearchReturn(r)
    \/ ScriptReturn(r)
    \/ VoiceReturn(r)
    \/ ImageReturn(r)
    \/ EditorReturn(r)

\* one run for a platform with a profile, next to one for a platform
\* without
InitLive ==
    /\ req \in {rq \in [Runs -> [topic : Topics, platform : PlatformNames]] :
                  /\ rq["A"].platform \in DOMAIN ConfigPlatforms
                  /\ rq["B"].platform \notin DOMAIN ConfigPlatforms
                  /\ rq["B"].topic = rq["A"].topic}
    /\ pc = [r \in Runs |-> "Init"]
    /\ profile = [r \in Runs |-> Unset]
    /\ inp = [r \in Runs |-> NoStage]
    /\ out = [r \in Runs |-> NoStage]
    /\ imgs = [r \in Runs |-> <<>>]
    /\ result = [r \in Runs |-> Pending]
    /\ err = [r \in Runs |-> ""]
    /\ calls = [r \in Runs |-> NoCalls]
    /\ log = [r \in Runs |-> NoCalls]
    /\ hist = [r \in Runs |-> <<"Init">>]
    /\ resp = [r \in Runs |-> <<>>]
    /\ fs = <<>>
    /\ tmpl = TmplInit

\* the runs when every provider call that is awaited returns or fails in
\* the end: the event loop resumes the coroutine that awaits it
SpecLive == InitLive /\ [][Next]_vars /\ \A r \in Runs : WF_vars(ProviderReturn(r))

\* ------------------------------------------------------------ properties

Last(seq) == seq[Len(seq)]

\* a value returned by run: neither None nor still unset
IsValue(x) == x # None /\ x # Unset

Started(r, stage) == calls[r][stage] # <<>>

Executing(r, stage) ==
    Started(r, stage) /\ Last(calls[r][stage]) \notin {"return_value", "return_none", "raise"}

\* one step of run r
RunStep(r) ==
    \/ Begin(r)
    \/ ResearchReturn(r)
    \/ ScriptReturn(r)
    \/ VoiceReturn(r)
    \/ ImageReturn(r)
    \/ EditorReturn(r)

\* a step of run r in which the lookup of the profile or the provider fails
FailStep(r) ==
    /\ \/ Begin(r) /\ req[r].platform \notin DOMAIN ConfigPlatforms
       \/ ResearchReturnOf(r, {[raised |-> TRUE]})
       \/ ScriptReturnOf(r, {[raised |-> TRUE]})
       \/ VoiceReturnOf(r, {[raised |-> TRUE]})
       \/ ImageReturnOf(r, {"fail"})
       \/ EditorReturnOf(r, {"fail"})
    /\ pc'[r] = "Failed"

\* the profile of the platform of run r
ProfileOf(r) == ConfigPlatforms[req[r].platform]

\* C1: when run of a stage returns None, no agent of a later stage has been
\* called in that run, the run is Failed and generate_content returned None.
C1_FailedStageStopsRun ==
    \A r \in Runs : \A k \in 1..Len(Stages) :
        out[r][Stages[k]] = None =>
            /\ \A j \in (k + 1)..Len(Stages) : ~Started(r, Stages[j])
            /\ pc[r] = "Failed"
            /\ result[r] = None

\* Voice returned None after Research and Script had returned values
C1_Witness ==
    /\ out["A"].voice = None
    /\ IsValue(out["A"].script)
    /\ pc["A"] = "Failed"

Order ==
    <<"Init", "Researching", "Scripting", "Narrating", "Illustrating", "Composing", "Done">>

\* C2: a run goes through Init, Researching, Scripting, Narrating,
\* Illustrating, Composing, Done in this order without skipping or repeating
\* a state, or leaves that path once, for Failed; Done and Failed are
\* terminal; and a step to Failed is possible in every state where a stage
\* is awaited, and in Init when the platform has no profile.
C2_StateMachine ==
    \A r \in Runs :
        /\ pc[r] = Last(hist[r])
        /\ \/ \E k \in 1..Len(Order) : hist[r] = SubSeq(Order, 1, k)
           \/ \E k \in 1..(Len(Order) - 1) : hist[r] = Append(SubSeq(Order, 1, k), "Failed")
        /\ pc[r] \in {"Done", "Failed"} => ~ENABLED RunStep(r)
        /\ pc[r] \in States \ {"Init", "Done", "Failed"} => ENABLED FailStep(r)
        /\ (pc[r] = "Init" /\ req[r].platform \notin DOMAIN ConfigPlatforms)
              => ENABLED FailStep(r)

\* one run went the whole way to Done, the other from Init to Failed
C2_Witness ==
    /\ hist["A"] = Order
    /\ hist["B"] = <<"Init", "Failed">>

\* C3: run returns a value exactly when process returned and validate_output
\* returned true; the value is the output of process; validate_output is
\* called at most once, after process returned, and not when process raised.
C3_RunReturnsValidatedOutput ==
    tmpl.phase = "returned" =>
        /\ tmpl.ret # None <=> (~tmpl.p.raised /\ tmpl.v = "true")
        /\ tmpl.ret # None => tmpl.ret = tmpl.p.value
        /\ Cardinality({i \in 1..Len(tmpl.ev) : tmpl.ev[i] = "validate"}) <= 1
        /\ \A j \in 1..Len(tmpl.ev) :
              tmpl.ev[j] = "validate" =>
                 /\ ~tmpl.p.raised
                 /\ \E i \in 1..(j - 1) : tmpl.ev[i] = "process_returned"
        /\ "validate" \in {tmpl.ev[i] : i \in 1..Len(tmpl.ev)} <=> ~tmpl.p.raised

\* run returned the output of process
C3_Witness ==
    /\ tmpl.phase = "returned"
    /\ tmpl.ret = [video_path |-> "v", metadata |-> "m"]
    /\ tmpl.v = "true"

\* C4: no exception leaves run: when process raises, and when
\* validate_output raises, run returns None.
C4_RunAbsorbsFailures ==
    tmpl.phase = "returned" =>
        /\ tmpl.escaped = ""
        /\ (tmpl.p.raised \/ tmpl.v = "raise") => tmpl.ret = None

\* validate_output raised and run returned None
C4_Witness ==
    /\ tmpl.phase = "returned"
    /\ tmpl.v = "raise"
    /\ tmpl.ret = None

\* C5: generate_content returns a PipelineResult or None and raises nothing,
\* whatever the platform name and whatever the stages do.
C5_ReturnsResultOrNone ==
    \A r \in Runs :
        /\ "raised" \notin DOMAIN result[r]
        /\ pc[r] = "Failed" => result[r] = None
        /\ pc[r] = "Done" => DOMAIN result[r] = {"video_path", "metadata"}
        /\ pc[r] \notin {"Done", "Failed"} => result[r] = Pending

\* one run failed on a platform without profile, the other at its last stage
C5_Witness ==
    /\ req["B"].platform = "myspace"
    /\ result["B"] = None
    /\ out["A"].editor = None
    /\ result["A"] = None

\* C6: when the five stages returned values, the result holds the video
\* path of the Editor output, the topic and platform of the request, and
\* the metadata each stage returned.
C6_ResultAssembled ==
    \A r \in Runs :
        (\A s \in StageNames : IsValue(out[r][s])) =>
            /\ pc[r] = "Done"
            /\ result[r].video_path = out[r].editor.video_path
            /\ result[r].metadata.topic = req[r].topic
            /\ result[r].metadata.platform = req[r].platform
            /\ \A s \in StageNames : result[r].metadata[s] = out[r][s].metadata
            /\ DOMAIN result[r].metadata = StageNames \cup {"topic", "platform"}

\* a run is Done
C6_Witness ==
    /\ pc["B"] = "Done"
    /\ req["B"].platform = "youtube_shorts"

\* C7: at most one stage of a run is executing, and a stage has been given
\* its input and started only when process and validate_output of the stage
\* before it have completed and its run returned a value.
C7_StagesSequential ==
    \A r \in Runs :
        /\ Cardinality({s \in StageNames : Executing(r, s)}) <= 1
        /\ \A s \in StageNames : inp[r][s] # Unset <=> Started(r, s)
        /\ \A k \in 2..Len(Stages) :
              Started(r, Stages[k]) =>
                 LET before == calls[r][Stages[k - 1]] IN
                 /\ Last(before) = "return_value"
                 /\ \E i, j \in 1..Len(before) :
                       i < j /\ before[i] = "process_returned" /\ before[j] = "validate_true"
                 /\ IsValue(out[r][Stages[k - 1]])

\* the Editor is executing
C7_Witness == Executing("A", "editor") /\ pc["A"] = "Composing"

\* C8: Research gets the topic; Script the facts of Research; Voice and
\* Visual the script of Script; Editor the image paths of Visual and the
\* audio path of Voice; every stage gets the platform and the parameters of
\* the profile of the platform of the request.
C8_StageInputs ==
    \A r \in Runs :
        /\ inp[r].research # Unset =>
              inp[r].research = [topic |-> req[r].topic, platform |-> req[r].platform,
                                 style |-> ProfileOf(r).style]
        /\ inp[r].script # Unset =>
              inp[r].script = [facts |-> out[r].research.facts,
                               platform |-> req[r].platform,
                               style |-> ProfileOf(r).style,
                               duration |-> ProfileOf(r).max_duration]
        /\ inp[r].voice # Unset =>
              inp[r].voice = [script |-> out[r].script.script,
                              platform |-> req[r].platform,
                              style |-> ProfileOf(r).style]
        /\ inp[r].visual # Unset =>
              /\ inp[r].visual = [script |-> out[r].script.script,
                                  platform |-> req[r].platform,
                                  style |-> ProfileOf(r).style,
                                  aspect_ratio |-> ProfileOf(r).aspect_ratio]
              /\ inp[r].visual.script = inp[r].voice.script
        /\ inp[r].editor # Unset =>
              inp[r].editor = [image_paths |-> out[r].visual.image_paths,
                               audio_path |-> out[r].voice.audio_path,
                               platform |-> req[r].platform,
                               duration |-> ProfileOf(r).max_duration,
                               aspect_ratio |-> ProfileOf(r).aspect_ratio]

\* the Editor got its input
C8_Witness ==
    /\ inp["A"].editor # Unset
    /\ Len(inp["A"].editor.image_paths) = 2

\* the keys of a stage input that hold the platform and profile parameters
ProfileKeys == {"platform", "style", "duration", "aspect_ratio"}

\* C9, as the specification states it: the stage-output fields of the input of a stage come from
\* the output of the stage immediately before it.
C9_FromPrecedingStage ==
    \A r \in Runs : \A k \in 2..Len(Stages) :
        inp[r][Stages[k]] # Unset =>
            \A key \in (DOMAIN inp[r][Stages[k]]) \ ProfileKeys :
                /\ key \in DOMAIN out[r][Stages[k - 1]]
                /\ inp[r][Stages[k]][key] = out[r][Stages[k - 1]][key]

\* the stage whose output a field of a stage input is taken from
SourceOf(stage, key) ==
    CASE stage = "script" /\ key = "facts" -> "research"
      [] stage = "voice" /\ key = "script" -> "script"
      [] stage = "visual" /\ key = "script" -> "script"
      [] stage = "editor" /\ key = "image_paths" -> "visual"
      [] stage = "editor" /\ key = "audio_path" -> "voice"
      [] OTHER -> "none"

\* C9, amended: every stage-output field of the input of a stage is taken
\* from the output of an earlier stage of the same run that returned a
\* value: facts from Research, the script of Voice and of Visual from
\* Script, the image paths from Visual, the audio path from Voice; all other
\* fields are the platform and parameters of its profile.
C9_FromEarlierStages ==
    \A r \in Runs : \A k \in 2..Len(Stages) :
        inp[r][Stages[k]] # Unset =>
            /\ \A key \in (DOMAIN inp[r][Stages[k]]) \ ProfileKeys :
                  LET src == SourceOf(Stages[k], key) IN
                  /\ src \in StageNames
                  /\ StageIndex(src) < k
                  /\ IsValue(out[r][src])
                  /\ inp[r][Stages[k]][key] = out[r][src][key]
            /\ \A key \in (DOMAIN inp[r][Stages[k]]) \cap ProfileKeys :
                  inp[r][Stages[k]][key] =
                      CASE key = "platform" -> req[r].platform
                        [] key = "style" -> ProfileOf(r).style
                        [] key = "duration" -> ProfileOf(r).max_duration
                        [] key = "aspect_ratio" -> ProfileOf(r).aspect_ratio

\* Visual got its input, after Voice returned
C9_Witness ==
    /\ pc["B"] = "Illustrating"
    /\ IsValue(out["B"].voice)
    /\ inp["B"].visual # Unset

\* C10, as the specification states it: for two runs with different topics, the video a finished
\* run refers to was written by that run, from images and audio written by
\* that run.
C10_RunsDoNotInterfere ==
    req["A"].topic # req["B"].topic =>
        \A r \in Runs :
            pc[r] = "Done" =>
                LET video == fs[result[r].video_path] IN
                /\ video.by = r
                /\ video.audio.by = r
                /\ \A i \in 1..Len(video.clips) : video.clips[i].image.by = r

\* the step a run in state rs takes when its provider gives the answer
StepOn(rs, files, answer, r) ==
    CASE rs.pc = "Researching" -> ResearchStep(rs, files, answer, r)
      [] rs.pc = "Scripting" -> ScriptStep(rs, files, answer, r)
      [] rs.pc = "Narrating" -> VoiceStep(rs, files, answer, r)
      [] rs.pc = "Illustrating" -> ImageStep(rs, files, answer.outcome, r)
      [] rs.pc = "Composing" -> EditorStep(rs, files, answer.outcome, r)
      [] OTHER -> [rs |-> rs, files |-> files]

RECURSIVE ReplayFrom(_, _, _, _)
ReplayFrom(rs, files, answers, r) ==
    IF answers = <<>> THEN [rs |-> rs, files |-> files]
    ELSE LET st == StepOn(rs, files, Head(answers).answer, r)
         IN  ReplayFrom(st.rs, st.files, Tail(answers), r)

\* run r on its own, on an empty output directory, with the provider answers
\* it has got so far; a run still in Init has not been called
Solo(r) ==
    IF pc[r] = "Init" THEN [rs |-> FreshRun(req[r]), files |-> <<>>]
    ELSE ReplayFrom(BeginStep(FreshRun(req[r]), <<>>), <<>>, resp[r], r)

\* C11: two runs on different platforms through the same agents: each run is
\* at every moment where it would be on its own with the same provider
\* answers, whatever the other run does (so its result is the same whether
\* the other run succeeds or fails), and the two runs write no file in
\* common: the files are what the one and what the other would write alone.
C11_DifferentPlatformsIndependent ==
    req["A"].platform # req["B"].platform =>
        LET a == Solo("A")
            b == Solo("B")
        IN  /\ Snap("A") = a.rs
            /\ Snap("B") = b.rs
            /\ (DOMAIN a.files) \cap (DOMAIN b.files) = {}
            /\ DOMAIN fs = (DOMAIN a.files) \cup (DOMAIN b.files)
            /\ \A p \in DOMAIN a.files : fs[p] = a.files[p]
            /\ \A p \in DOMAIN b.files : fs[p] = b.files[p]

\* on different platforms, run A failed at its Editor after it wrote audio
\* and images, and run B is Done
C11_Witness ==
    /\ req["A"].platform # req["B"].platform
    /\ out["A"].editor = None
    /\ pc["B"] = "Done"
    /\ \E p, q \in DOMAIN fs : fs[p].by = "A" /\ fs[q].by = "B"

\* C12: two runs with the same topic and platform that got the same provider
\* answers are in the same state, terminal states included, and have got the
\* same stage outputs and the same result.
C12_Idempotent ==
    (/\ req["A"] = req["B"]
     /\ resp["A"] = resp["B"]
     /\ pc["A"] # "Init"
     /\ pc["B"] # "Init")
        => /\ pc["A"] = pc["B"]
           /\ out["A"] = out["B"]
           /\ result["A"] = result["B"]

\* both runs had the same request and the same answers, and both are Done
C12_Witness ==
    /\ req["A"] = req["B"]
    /\ resp["A"] = resp["B"]
    /\ pc["A"] = "Done"
    /\ pc["B"] = "Done"
    /\ result["A"] = result["B"]

\* how often a call is in the calls made on the agent of a stage
CallCount(r, stage, call) ==
    Cardinality({i \in 1..Len(calls[r][stage]) : calls[r][stage][i] = call})

\* the provider calls run r has made
ProviderCalls(r) ==
    CallCount(r, "research", "provider") + CallCount(r, "script", "provider")
        + CallCount(r, "voice", "provider") + CallCount(r, "visual", "provider")
        + CallCount(r, "editor", "provider")

\* the provider failed
AnswerFailed(x) ==
    IF "raised" \in DOMAIN x.answer THEN x.answer.raised ELSE x.answer.outcome = "fail"

\* C13: in one run, run and process of each agent are called at most once,
\* every provider call is answered at most once, and a provider call that
\* failed is the last provider call of the run: the run is Failed and no
\* stage has called a provider since.
C13_NoRetry ==
    \A r \in Runs :
        /\ \A s \in StageNames :
              CallCount(r, s, "run") <= 1 /\ CallCount(r, s, "process") <= 1
        /\ ProviderCalls(r) \in {Len(resp[r]), Len(resp[r]) + 1}
        /\ \A i \in 1..Len(resp[r]) :
              AnswerFailed(resp[r][i]) =>
                 /\ i = Len(resp[r])
                 /\ ProviderCalls(r) = i
                 /\ pc[r] = "Failed"
                 /\ \A k \in (StageIndex(resp[r][i].stage) + 1)..Len(Stages) :
                       ~Started(r, Stages[k])

\* the image provider answered the first request of Visual and failed at
\* the second
C13_Witness ==
    /\ Len(resp["A"]) = 5
    /\ resp["A"][4] = [stage |-> "visual", answer |-> [outcome |-> "ok"]]
    /\ resp["A"][5] = [stage |-> "visual", answer |-> [outcome |-> "fail"]]
    /\ pc["A"] = "Failed"

\* validate_output of a stage has been called
Validated(stage) == tmpl.phase = "validated" /\ tmpl.stage = stage

\* C14: Research validate_output returns false when there are more facts
\* than sources or when one of the two lists is empty, and true when facts,
\* sources and metadata are there, both lists hold something and there are
\* at least as many sources as facts.
C14_ResearchValidate ==
    Validated("research") =>
        LET o == tmpl.output IN
        /\ (/\ HasKeys(o, {"facts", "sources"})
            /\ \/ Len(o.facts) > Len(o.sources)
               \/ Len(o.facts) = 0
               \/ Len(o.sources) = 0)
              => tmpl.res = "false"
        /\ (/\ HasKeys(o, {"facts", "sources", "metadata"})
            /\ Len(o.facts) > 0
            /\ Len(o.sources) >= Len(o.facts))
              => tmpl.res = "true"

\* an output with one fact and two sources was found valid
C14_Witness ==
    /\ Validated("research")
    /\ HasKeys(tmpl.output, {"facts", "sources", "metadata"})
    /\ Len(tmpl.output.facts) = 1
    /\ Len(tmpl.output.sources) = 2
    /\ tmpl.res = "true"

\* C15: Script validate_output returns false when the script has fewer than
\* 50 or more than 300 words or when script, hook or call_to_action is
\* empty, and true when the three are not empty and the script has 50 to
\* 300 words, 50 and 300 included.
C15_ScriptValidate ==
    Validated("script") =>
        LET o == tmpl.output IN
        /\ (/\ HasKeys(o, {"script", "hook", "call_to_action"})
            /\ \/ WordCount(o.script) < 50
               \/ WordCount(o.script) > 300
               \/ o.script = <<>>
               \/ o.hook = <<>>
               \/ o.call_to_action = <<>>)
              => tmpl.res = "false"
        /\ (/\ HasKeys(o, {"script", "hook", "call_to_action", "metadata"})
            /\ o.script # <<>>
            /\ o.hook # <<>>
            /\ o.call_to_action # <<>>
            /\ WordCount(o.script) >= 50
            /\ WordCount(o.script) <= 300)
              => tmpl.res = "true"

\* a script of exactly 300 words was found valid
C15_Witness ==
    /\ Validated("script")
    /\ HasKeys(tmpl.output, {"script", "hook", "call_to_action", "metadata"})
    /\ WordCount(tmpl.output.script) = 300
    /\ tmpl.res = "true"

\* the keys validate_output of a stage requires
RequiredKeys(stage) ==
    CASE stage = "research" -> {"facts", "sources", "metadata"}
      [] stage = "script" -> {"script", "hook", "call_to_action", "metadata"}
      [] stage = "voice" -> {"audio_path", "duration", "metadata"}
      [] stage = "visual" -> {"image_paths", "metadata"}
      [] stage = "editor" -> {"video_path", "metadata"}

\* C16: for each of the five agents, validate_output returns false, and
\* raises nothing, for an output that lacks one of the required keys of its
\* stage, whatever its other keys hold and whatever files there are, and run
\* returns None for it.
C16_MissingKeyInvalid ==
    \A stage \in StageNames :
        (Validated(stage) /\ ~HasKeys(tmpl.output, RequiredKeys(stage))) =>
            /\ tmpl.res = "false"
            /\ tmpl.ret = None

\* a Voice output without metadata, its file there and its duration
\* positive, was found invalid
C16_Witness ==
    /\ Validated("voice")
    /\ DOMAIN tmpl.output = {"audio_path", "duration"}
    /\ Exists(tmpl.files, tmpl.output.audio_path)
    /\ tmpl.output.duration.num > 0
    /\ tmpl.res = "false"
    /\ tmpl.ret = None

\* C17, as the specification states it: Voice validate_output finds an
\* output valid only if its audio file exists, is decodable audio and the
\* duration is above 0, and invalid when the file is missing, is not
\* decodable audio, or the duration is 0 or below.
C17_VoiceValidate ==
    (Validated("voice") /\ HasKeys(tmpl.output, RequiredKeys("voice"))) =>
        LET o == tmpl.output IN
        tmpl.res = "true" <=>
            /\ Exists(tmpl.files, o.audio_path)
            /\ AudioDecodable(tmpl.files, o.audio_path)
            /\ o.duration.num > 0

\* every image of the output exists and can be opened
ImagesResolve(o, files) ==
    \A i \in 1..Len(o.image_paths) :
        Exists(files, o.image_paths[i]) /\ Decodable(files, o.image_paths[i])

\* C18, as the specification states it: Visual validate_output returns true
\* exactly when image_paths is there, holds something, and every path in it
\* is an existing image that can be opened.
C18_VisualValidateOriginal ==
    Validated("visual") =>
        LET o == tmpl.output IN
        tmpl.res = "true" <=>
            /\ "image_paths" \in DOMAIN o
            /\ o.image_paths # <<>>
            /\ ImagesResolve(o, tmpl.files)

\* C18, amended: Visual validate_output returns true exactly when image_paths
\* and metadata are there, image_paths holds something, and every path in
\* it is an existing image that can be opened; one image that is missing or
\* cannot be opened makes the output invalid.
C18_VisualValidate ==
    Validated("visual") =>
        LET o == tmpl.output IN
        tmpl.res = "true" <=>
            /\ HasKeys(o, {"image_paths", "metadata"})
            /\ o.image_paths # <<>>
            /\ ImagesResolve(o, tmpl.files)

\* an output of two images, the first there and the second one not an
\* image, was found invalid
C18_Witness ==
    /\ Validated("visual")
    /\ HasKeys(tmpl.output, {"image_paths", "metadata"})
    /\ Len(tmpl.output.image_paths) = 2
    /\ Exists(tmpl.files, tmpl.output.image_paths[1])
    /\ Decodable(tmpl.files, tmpl.output.image_paths[1])
    /\ Exists(tmpl.files, tmpl.output.image_paths[2])
    /\ ~Decodable(tmpl.files, tmpl.output.image_paths[2])
    /\ tmpl.res = "false"

\* the video of the output exists, can be opened and lasts more than 0
VideoGood(o, files) ==
    /\ Exists(files, o.video_path)
    /\ files[o.video_path].playable
    /\ files[o.video_path].duration.num > 0

\* C19: Editor validate_output returns true exactly when video_path and
\* metadata are there, the video file exists, can be opened and lasts more
\* than 0; and a run whose Editor returned this output is Done only then,
\* and Failed otherwise.
C19_EditorValidate ==
    Validated("editor") =>
        LET o == tmpl.output
            good == HasKeys(o, {"video_path", "metadata"}) /\ VideoGood(o, tmpl.files)
        IN  /\ tmpl.res = "true" <=> good
            /\ tmpl.pc = "Done" <=> good
            /\ tmpl.pc \in {"Done", "Failed"}

\* a video that can be opened and lasts 0 was found invalid, the run Failed
C19_Witness ==
    /\ Validated("editor")
    /\ HasKeys(tmpl.output, {"video_path", "metadata"})
    /\ Exists(tmpl.files, tmpl.output.video_path)
    /\ tmpl.files[tmpl.output.video_path].playable
    /\ tmpl.files[tmpl.output.video_path].duration.num = 0
    /\ tmpl.res = "false"
    /\ tmpl.pc = "Failed"

\* what a step leaves as it is: the requests, every stage output that run
\* has returned, every stage input that has been built, every result
Frozen ==
    \A r \in Runs :
        /\ req'[r] = req[r]
        /\ result[r] # Pending => result'[r] = result[r]
        /\ \A s \in StageNames :
              /\ out[r][s] # Unset => out'[r][s] = out[r][s]
              /\ inp[r][s] # Unset => inp'[r][s] = inp[r][s]

\* what later stages and the result hold of a stage output is what the
\* stage returned
Consumed ==
    \A r \in Runs :
        /\ inp[r].script # Unset =>
              Subscript(out[r].research, "facts") = Returned(inp[r].script.facts)
        /\ inp[r].voice # Unset =>
              Subscript(out[r].script, "script") = Returned(inp[r].voice.script)
        /\ inp[r].visual # Unset =>
              Subscript(out[r].script, "script") = Returned(inp[r].visual.script)
        /\ inp[r].editor # Unset =>
              /\ Subscript(out[r].visual, "image_paths")
                    = Returned(inp[r].editor.image_paths)
              /\ Subscript(out[r].voice, "audio_path") = Returned(inp[r].editor.audio_path)
        /\ pc[r] = "Done" =>
              /\ \A s \in StageNames :
                    Subscript(out[r][s], "metadata") = Returned(result[r].metadata[s])
              /\ result[r].metadata.topic = req[r].topic
              /\ result[r].metadata.platform = req[r].platform
        /\ \A s \in StageNames :
              inp[r][s] # Unset => inp[r][s].platform = req[r].platform

\* C20: once run has returned the output of a stage, no step of the
\* orchestrator or of a later stage, of this run or of another, changes it;
\* the inputs of later stages and the result hold what the stage returned;
\* the topic and the platform of the request never change.
C20_OutputsNeverModified == [][Frozen]_vars /\ []Consumed

\* one run is Done and the other Failed after its Research returned a value
C20_Witness ==
    /\ pc["A"] = "Done"
    /\ pc["B"] = "Failed"
    /\ IsValue(out["B"].research)
    /\ IsValue(out["B"].script)

\* the operations that read and change nothing
ReadOnlyOps == {"exists", "read", "open", "close"}

\* validate_output left the output, the fields of its agent and the files
\* as it found them
ValidateKept ==
    /\ tmpl.after.output = tmpl.output
    /\ tmpl.after.fields = ConfigAgents[tmpl.stage]
    /\ tmpl.after.files = tmpl.files

\* C21 as stated: validate_output of every agent leaves all state as it is:
\* the output, the fields of the agent, every file and the log; all it does
\* is to look whether files exist and can be decoded.
C21_ValidateChangesNothing ==
    tmpl.phase = "validated" =>
        /\ ValidateKept
        /\ tmpl.after.log = <<>>
        /\ \A i \in 1..Len(tmpl.io) : tmpl.io[i].op \in ReadOnlyOps

\* C21: validate_output of every agent leaves the output it is given, the
\* fields of its agent and every file under output/ as they are, and reads
\* files only to see that they exist and can be decoded; the one thing it
\* writes is the log of its agent: one error entry exactly when it returns
\* false, none when it returns true.
C21_ValidateFrame ==
    tmpl.phase = "validated" =>
        /\ ValidateKept
        /\ \A i \in 1..Len(tmpl.io) : tmpl.io[i].op \in ReadOnlyOps \cup {"log"}
        /\ \A i \in 1..Len(tmpl.io) :
              tmpl.io[i].op \in {"read", "open"} => Exists(tmpl.files, tmpl.io[i].path)
        /\ tmpl.after.log = tmpl.log
        /\ \A i \in 1..Len(tmpl.after.log) :
              /\ tmpl.after.log[i].level = "ERROR"
              /\ tmpl.after.log[i].agent = AgentName(tmpl.stage)
        /\ tmpl.res = "false" <=> Len(tmpl.after.log) = 1
        /\ tmpl.res = "true" <=> tmpl.after.log = <<>>

\* Visual validate_output opened two images, found the second one not to be
\* an image, logged it and returned false, and both files are as they were
C21_Witness ==
    /\ Validated("visual")
    /\ Len(tmpl.io) = 5
    /\ tmpl.io[2].op = "read"
    /\ tmpl.io[4].op = "read"
    /\ tmpl.io[4].path # tmpl.io[2].path
    /\ tmpl.io[5].op = "log"
    /\ tmpl.res = "false"
    /\ tmpl.after.files = tmpl.files
    /\ tmpl.after.output = tmpl.output

\* the files the stages of run r that have returned a value wrote, and the
\* images Visual has written so far
Artifacts(r) ==
    (IF IsValue(out[r].voice) THEN {out[r].voice.audio_path} ELSE {})
        \cup (IF IsValue(out[r].visual)
              THEN {out[r].visual.image_paths[i] : i \in 1..Len(out[r].visual.image_paths)}
              ELSE {})
        \cup {imgs[r][i] : i \in 1..Len(imgs[r])}

\* the step in which run r fails leaves every file that was there, and
\* changes none but the one file the failing stage itself has just written
FailureKeepsFiles ==
    \A r \in Runs :
        pc[r] # "Failed" /\ pc'[r] = "Failed" =>
            /\ \A p \in DOMAIN fs : p \in DOMAIN fs'
            /\ \A p \in Artifacts(r) : p \in DOMAIN fs /\ fs'[p] = fs[p]
            /\ \A p \in DOMAIN fs :
                  fs'[p] # fs[p] =>
                      \/ pc[r] = "Narrating" /\ p[1] = "output/audio"
                      \/ pc[r] = "Composing" /\ p[1] = "output/videos"

\* the artifacts of a failed run are there
ArtifactsRemain ==
    \A r \in Runs : pc[r] = "Failed" => \A p \in Artifacts(r) : Exists(fs, p)

\* C22: when a run fails at a stage, the audio file and the image files the
\* stages before it wrote are left in place: the step to Failed deletes no
\* file and changes no artifact of an earlier stage, and the artifacts of a
\* failed run stay there.
C22_FailureLeavesArtifacts == [][FailureKeepsFiles]_vars /\ []ArtifactsRemain

\* a run failed at the Editor, whose provider failed, after Voice and Visual
\* returned; its audio file and its images are there
C22_Witness ==
    /\ pc["A"] = "Failed"
    /\ IsValue(out["A"].voice)
    /\ IsValue(out["A"].visual)
    /\ out["A"].editor = None
    /\ Last(resp["A"]) = [stage |-> "editor", answer |-> [outcome |-> "fail"]]
    /\ Exists(fs, out["A"].voice.audio_path)
    /\ \A i \in 1..Len(out["A"].visual.image_paths) :
          Exists(fs, out["A"].visual.image_paths[i])

\* generate_content of run r has returned
Terminal(r) == pc[r] \in {"Done", "Failed"} /\ result[r] # Pending

\* the stages of run r whose process waits for its provider
PendingCalls(r) == {s \in StageNames : Started(r, s) /\ Last(calls[r][s]) = "provider"}

\* a run that has started and not ended waits for exactly one provider call,
\* the one of the stage it is in
OnlyProviderHolds ==
    \A r \in Runs :
        /\ pc[r] \notin {"Init", "Done", "Failed"} =>
              /\ Cardinality(PendingCalls(r)) = 1
              /\ \A s \in PendingCalls(r) : pc[r] = StateOf(s)
              /\ result[r] = Pending
        /\ pc[r] \in {"Done", "Failed"} => PendingCalls(r) = {} /\ result[r] # Pending

\* C23: when every provider call of a run returns or fails in the end, the
\* run that has started reaches Done or Failed and generate_content returns;
\* a run that has started and not ended waits for one provider call.
C23_RunTerminates ==
    /\ \A r \in Runs : [](pc[r] # "Init" => <>Terminal(r))
    /\ []OnlyProviderHolds

\* one run is Done after its providers answered six times in all, the image
\* provider twice, and generate_content has returned its result
C23_Witness ==
    /\ pc["A"] = "Done"
    /\ Len(resp["A"]) = 6
    /\ Terminal("A")
    /\ PendingCalls("A") = {}

\* run of the agent of a stage has returned
Processed(stage) == tmpl.phase = "processed" /\ tmpl.stage = stage

\* C24: when the input of a stage lacks a key its process reads, process
\* raises KeyError before it calls its provider (it ends the same way
\* whatever the provider would have answered) and before it writes a file,
\* and run logs the error and returns None.
C24_MissingFieldFailsFirst ==
    tmpl.phase = "processed" /\ ~HasKeys(tmpl.input, RequiredInput(tmpl.stage)) =>
        /\ tmpl.p = Raised("KeyError")
        /\ tmpl.blind
        /\ tmpl.after = tmpl.files
        /\ tmpl.ret = None
        /\ tmpl.log = <<LogInfo(AgentName(tmpl.stage), "Starting processing"),
                        LogError(AgentName(tmpl.stage), "Error during processing")>>

\* Voice was given an input without its style and a speech provider that
\* would have returned audio: KeyError, no file, None
C24_Witness ==
    /\ Processed("voice")
    /\ DOMAIN tmpl.input = {"script", "platform"}
    /\ ~tmpl.answer.raised
    /\ tmpl.answer.kind = "mp3"
    /\ tmpl.p = Raised("KeyError")
    /\ tmpl.after = <<>>
    /\ tmpl.ret = None

\* C25: a run for a platform that has no profile goes from Init straight to
\* Failed: generate_content returns None, no input is built, no agent is
\* called, nothing is logged and no file is written by the run.
C25_UnknownPlatformFails ==
    \A r \in Runs :
        req[r].platform \notin DOMAIN ConfigPlatforms =>
            /\ pc[r] \in {"Init", "Failed"}
            /\ hist[r] \in {<<"Init">>, <<"Init", "Failed">>}
            /\ pc[r] = "Failed" => result[r] = None /\ err[r] = "KeyError"
            /\ profile[r] = Unset
            /\ calls[r] = NoCalls
            /\ log[r] = NoCalls
            /\ inp[r] = NoStage
            /\ out[r] = NoStage
            /\ resp[r] = <<>>
            /\ \A p \in DOMAIN fs : fs[p].by # r

\* the run for a platform without a profile has failed, next to a run for a
\* platform with one that is Done
C25_Witness ==
    /\ req["B"].platform \notin DOMAIN ConfigPlatforms
    /\ pc["B"] = "Failed"
    /\ hist["B"] = <<"Init", "Failed">>
    /\ result["B"] = None
    /\ pc["A"] = "Done"

\* where the sentences of a text begin: at a token that is neither a full
\* stop nor white space, with nothing but white space between it and the
\* full stop before it (or the beginning)
SentenceStarts(s) ==
    {i \in 1..Len(s) :
        /\ s[i] # T(".")
        /\ ~IsWs(s[i])
        /\ \A j \in 1..(i - 1) : (\A k \in j..(i - 1) : s[k] # T(".")) => IsWs(s[j])}

\* what the image provider has answered to run r, in order
ImageAnswers(r) ==
    LET OfVisual(x) == x.stage = "visual" IN SelectSeq(resp[r], OfVisual)

\* C26: Visual asks for one image for every sentence of the script that is
\* not empty, one request after the other; run returns nothing before the
\* last one is answered, and then a list with the reference of one image
\* for every sentence, in the order of the sentences; when one request
\* fails no further one is made, run returns None and not a shorter list.
C26_OneImagePerSentence ==
    \A r \in Runs :
        inp[r].visual # Unset =>
            LET n == Cardinality(SentenceStarts(inp[r].visual.script))
                answers == ImageAnswers(r)
                requests == CallCount(r, "visual", "provider")
                failed == \E i \in 1..Len(answers) : AnswerFailed(answers[i])
            IN  /\ requests <= n
                /\ \A i \in 1..(Len(answers) - 1) : ~AnswerFailed(answers[i])
                /\ pc[r] = "Illustrating" =>
                      /\ out[r].visual = Unset
                      /\ ~failed
                      /\ Len(answers) < n
                      /\ requests = Len(answers) + 1
                      /\ imgs[r] = [i \in 1..Len(answers) |->
                                       ImagePath(req[r].platform, i - 1)]
                /\ pc[r] # "Illustrating" /\ failed =>
                      /\ out[r].visual = None
                      /\ requests = Len(answers)
                      /\ pc[r] = "Failed"
                      /\ result[r] = None
                /\ pc[r] # "Illustrating" /\ ~failed =>
                      /\ requests = n
                      /\ Len(answers) = n
                      /\ n > 0 => /\ IsValue(out[r].visual)
                                  /\ out[r].visual.image_paths =
                                        [i \in 1..n |-> ImagePath(req[r].platform, i - 1)]

\* Visual returned two images for a script of two sentences in one run, and
\* None in the other, whose second request failed
C26_Witness ==
    /\ IsValue(out["A"].visual)
    /\ Len(out["A"].visual.image_paths) = 2
    /\ Cardinality(SentenceStarts(inp["A"].visual.script)) = 2
    /\ inp["B"].visual # Unset
    /\ Len(ImageAnswers("B")) = 2
    /\ AnswerFailed(ImageAnswers("B")[2])
    /\ out["B"].visual = None

RECURSIVE SumNum(_)
\* the sum of the numerators of the durations of clips
SumNum(clips) == IF clips = <<>> THEN 0 ELSE Head(clips).duration.num + SumNum(Tail(clips))

\* C27: the Editor shows every image for total_duration / image_count, so
\* that the durations of the clips add up to total_duration; Visual's run
\* returns no list without an image, so that the Editor of a run that goes
\* on from Visual is given at least one; and an Editor that is given an
\* empty image list raises (the division by 0) and its run returns None.
C27_EqualClipDurations ==
    /\ Processed("editor") /\ ~tmpl.p.raised =>
          LET video == tmpl.after[tmpl.p.value.video_path]
              n == Len(tmpl.input.image_paths)
          IN  /\ n >= 1
              /\ Len(video.clips) = n
              /\ \A i \in 1..n :
                    video.clips[i].duration = [num |-> tmpl.input.duration, den |-> n]
              /\ SumNum(video.clips) = tmpl.input.duration * n
    /\ Processed("visual") =>
          /\ IsValue(tmpl.ret) => Len(tmpl.ret.image_paths) >= 1
          /\ tmpl.pc = "Composing" <=> IsValue(tmpl.ret)
          /\ tmpl.pc = "Composing" =>
                /\ tmpl.next.image_paths = tmpl.ret.image_paths
                /\ Len(tmpl.next.image_paths) >= 1
          /\ tmpl.pc # "Composing" => tmpl.pc = "Failed" /\ tmpl.next = Unset
    /\ Processed("editor") /\ HasKeys(tmpl.input, RequiredInput("editor")) =>
          (tmpl.input.image_paths = <<>> =>
              /\ tmpl.p = Raised("ZeroDivisionError")
              /\ tmpl.blind
              /\ tmpl.after = tmpl.files
              /\ tmpl.ret = None
              /\ tmpl.pc = "Failed")

\* the Editor made a video of two images, each shown for half of the time
C27_Witness ==
    /\ Processed("editor")
    /\ ~tmpl.p.raised
    /\ Len(tmpl.input.image_paths) = 2
    /\ tmpl.after[tmpl.p.value.video_path].clips[2].duration
          = [num |-> ConfigPlatforms.tiktok.max_duration, den |-> 2]

\* the lines of a response as the parser sees them: stripped, the blank ones
\* left out
Seen(lines) == SelectSeq(StripAll(lines), NonEmpty)

ScriptHeaders == {<<T("HOOK:")>>, <<T("MAIN CONTENT:")>>, <<T("CALL TO ACTION:")>>}

\* the lines after the last line that is the header, up to the next header
\* or the end, joined by line feeds; nothing when no line is the header
SectionAfter(N, header) ==
    LET at == {i \in 1..Len(N) : N[i] = header} IN
    IF at = {} THEN <<>>
    ELSE LET last == Max(at)
             next == Min({j \in (last + 1)..Len(N) : N[j] \in ScriptHeaders}
                            \cup {Len(N) + 1})
         IN  Join(<<T("\n")>>, SubSeq(N, last + 1, next - 1))

\* Script was given a complete input and its provider returned a text
ScriptParsed ==
    /\ Processed("script")
    /\ HasKeys(tmpl.input, RequiredInput("script"))
    /\ ~tmpl.answer.raised

\* C28: hook, script and call_to_action are the non-blank lines after the
\* header HOOK:, MAIN CONTENT: and CALL TO ACTION:, up to the next header;
\* lines before the first header are in none of them; of a header that is
\* there twice the last one counts; when one of the three headers is not
\* there its field is empty, run returns None and the run fails.
C28_ScriptParsing ==
    ScriptParsed =>
        LET N == Seen(tmpl.answer.lines)
            o == tmpl.p.value
        IN  /\ ~tmpl.p.raised
            /\ o.hook = SectionAfter(N, <<T("HOOK:")>>)
            /\ o.script = SectionAfter(N, <<T("MAIN CONTENT:")>>)
            /\ o.call_to_action = SectionAfter(N, <<T("CALL TO ACTION:")>>)
            /\ \A h \in ScriptHeaders :
                  (\A i \in 1..Len(N) : N[i] # h) =>
                      /\ SectionAfter(N, h) = <<>>
                      /\ tmpl.ret = None
                      /\ tmpl.pc = "Failed"
            /\ IsValue(tmpl.ret) => tmpl.ret = o /\ tmpl.pc = "Narrating"

\* a line of text, then HOOK: with one line, then HOOK: again with two: the
\* hook is the two lines, the script is empty and run returns None
C28_Witness ==
    /\ ScriptParsed
    /\ Len(tmpl.answer.lines) = 6
    /\ tmpl.answer.lines[1] = Words(2)
    /\ tmpl.answer.lines[2] = <<T("HOOK:")>>
    /\ tmpl.answer.lines[4] = <<T("HOOK:")>>
    /\ tmpl.p.value.hook = <<W(1), T("\n"), W(60)>>
    /\ tmpl.p.value.script = <<>>
    /\ tmpl.ret = None
    /\ tmpl.pc = "Failed"

ResearchHeaders == {<<T("FACTS:")>>, <<T("SOURCES:")>>}

\* the places of the bullet lines whose nearest header before them is header
BulletsUnder(N, header) ==
    {i \in 1..Len(N) :
        /\ Len(N[i]) > 1
        /\ N[i][1] = T("- ")
        /\ \E j \in 1..(i - 1) :
              /\ N[j] = header
              /\ \A k \in (j + 1)..(i - 1) : N[k] \notin ResearchHeaders}

\* the bullets at the places S without their "- ", in the order of the lines
BulletTexts(N, S) == [k \in 1..Cardinality(S) |-> Tail(N[Nth(S, k)])]

\* Research was given a complete input and its provider returned a text
ResearchParsed ==
    /\ Processed("research")
    /\ HasKeys(tmpl.input, RequiredInput("research"))
    /\ ~tmpl.answer.raised

\* C29: facts are the bullets whose nearest header before them is FACTS:,
\* sources the ones whose nearest header is SOURCES:, both in the order of
\* the lines; bullets before the first header and lines that are no bullets
\* are in neither; with a bullet under each header both lists hold
\* something; with no bullet under SOURCES: run returns None.
C29_ResearchParsing ==
    ResearchParsed =>
        LET N == Seen(tmpl.answer.lines)
            F == BulletsUnder(N, <<T("FACTS:")>>)
            S == BulletsUnder(N, <<T("SOURCES:")>>)
            o == tmpl.p.value
        IN  /\ ~tmpl.p.raised
            /\ o.facts = BulletTexts(N, F)
            /\ o.sources = BulletTexts(N, S)
            /\ F # {} /\ S # {} => o.facts # <<>> /\ o.sources # <<>>
            /\ S = {} => o.sources = <<>> /\ tmpl.ret = None
            /\ IsValue(tmpl.ret) => tmpl.ret = o

\* a bullet before any header, then FACTS: with two bullets, then a line
\* that is no bullet: two facts in their order, no source, None
C29_Witness ==
    /\ ResearchParsed
    /\ Len(tmpl.answer.lines) = 5
    /\ tmpl.answer.lines[1] = Bullet(3)
    /\ tmpl.answer.lines[2] = <<T("FACTS:")>>
    /\ tmpl.answer.lines[5] = Words(2)
    /\ tmpl.p.value.facts = <<<<W(1)>>, <<W(2)>>>>
    /\ tmpl.p.value.sources = <<>>
    /\ tmpl.ret = None

\* C30: whenever process of Research returns, what it returns has facts,
\* sources and metadata, and the topic, platform and style of the metadata
\* are the ones of its input, which are the ones of the request and of the
\* profile; and in the result of every run that is Done the metadata of
\* every stage name the platform of the request.
C30_MetadataEchoesRequest ==
    \A r \in Runs :
        /\ resp[r] # <<>> =>
              LET input == inp[r].research
                  p == ResearchProcess(input, resp[r][1].answer)
              IN  /\ resp[r][1].stage = "research"
                  /\ p.raised <=> resp[r][1].answer.raised
                  /\ ~p.raised =>
                        /\ DOMAIN p.value = {"facts", "sources", "metadata"}
                        /\ p.value.metadata.topic = input.topic
                        /\ p.value.metadata.platform = input.platform
                        /\ p.value.metadata.style = input.style
                        /\ input.topic = req[r].topic
                        /\ input.platform = req[r].platform
                        /\ input.style = ProfileOf(r).style
                        /\ out[r].research \in {None, p.value}
                  /\ p.raised => out[r].research = None
        /\ pc[r] = "Done" =>
              /\ DOMAIN result[r].metadata = {"topic", "platform"} \cup StageNames
              /\ result[r].metadata.platform = req[r].platform
              /\ result[r].metadata.topic = req[r].topic
              /\ \A s \in StageNames :
                    result[r].metadata[s].platform = req[r].platform

\* the two runs are Done, one for each platform that has a profile, and
\* the result of each names its own platform in the metadata of Research
C30_Witness ==
    /\ pc["A"] = "Done"
    /\ pc["B"] = "Done"
    /\ req["B"].platform # req["A"].platform
    /\ result["A"].metadata.research.platform = "tiktok"
    /\ result["B"].metadata.research.platform = "youtube_shorts"

\* the entries run itself writes
StartEntry(stage) == LogInfo(AgentName(stage), "Starting processing")
SuccessEntry(stage) == LogInfo(AgentName(stage), "Processing completed successfully")
RunErrorEntries(stage) ==
    {LogError(AgentName(stage), "Error during processing"),
     LogError(AgentName(stage), "Output validation failed")}

\* the positions of a log that hold an entry of a set
EntriesOf(entries, S) == {i \in 1..Len(entries) : entries[i] \in S}

\* the positions of a log that hold an error entry
ErrorsOf(entries) == {i \in 1..Len(entries) : entries[i].level = "ERROR"}

\* C31: every call of run writes its start entry before process is called;
\* before it returns it writes the success entry exactly when it returns the
\* output of process, and an error entry exactly when it returns None, be
\* it that process raised or that validate_output returned false; every
\* entry carries the name of the agent.
C31_RunLogs ==
    /\ tmpl.phase = "called" =>
          /\ tmpl.log = <<StartEntry(tmpl.stage)>>
          /\ tmpl.ev = <<"run", "process">>
    /\ tmpl.phase = "processed" =>
          LET entries == tmpl.log
              stage == tmpl.stage
              returned == tmpl.ret # None
          IN  /\ tmpl.ret \in {None, tmpl.p.value}
              /\ returned => ~tmpl.p.raised
              /\ EntriesOf(entries, {StartEntry(stage)}) = {1}
              /\ EntriesOf(entries, {SuccessEntry(stage)}) # {} <=> returned
              /\ ErrorsOf(entries) # {} <=> ~returned
              /\ returned => EntriesOf(entries, {SuccessEntry(stage)}) = {Len(entries)}
              /\ ~returned =>
                    /\ Cardinality(EntriesOf(entries, RunErrorEntries(stage))) = 1
                    /\ Last(entries) =
                          LogError(AgentName(stage),
                                   IF tmpl.p.raised THEN "Error during processing"
                                   ELSE "Output validation failed")
              /\ Last(tmpl.ev) = (IF returned THEN "return_value" ELSE "return_none")
              /\ \A i \in 1..Len(entries) :
                    /\ entries[i].agent = AgentName(stage)
                    /\ entries[i].level \in {"INFO", "ERROR"}

\* run of Research returned None after validate_output found no source: the
\* log holds the start entry, the entry of the validator and the one of run
C31_Witness ==
    /\ Processed("research")
    /\ ~tmpl.p.raised
    /\ tmpl.ret = None
    /\ tmpl.log = <<StartEntry("research"),
                    LogError("research_agent", "Empty facts or sources"),
                    LogError("research_agent", "Output validation failed")>>

\* C32: Editor validate_output releases the video handle it opens on every
\* return path: when it has returned, true or false, the video that lasts 0
\* or less included, no handle that this call opened is still open.
C32_EditorValidateClosesVideo ==
    Validated("editor") => tmpl.after.handles = {}

====
